---------------------------- MODULE Spec2Model ----------------------------
(***************************************************************************)
(* Model of the arbitrage scanner: text normalisation and keyword          *)
(* extraction, the N-platform matcher matchAllMarkets and the evaluator    *)
(* findArbitrage (src/unnamed/part_000), and the two-strategy matcher      *)
(* matchMarkets with its evaluator (src/app/api/scan/route.ts).            *)
(*                                                                         *)
(* Text is a sequence of one-character strings.  A Market is a record; a   *)
(* Match refers to its two markets by their position in the input list,    *)
(* which is the object identity the JavaScript code keeps.  Prices are     *)
(* exact decimals counted in hundredths (40 is 0.40).                      *)
(***************************************************************************)
EXTENDS Integers, Sequences, FiniteSets, TLC

VARIABLES allMarkets, threshold, matches, usedPairs, arbs, pc,
          poly, kalshi, fuseResults, usedKalshi,
          sources, results, response, cursor, textRun, hedgeRun, dash

vars == <<allMarkets, threshold, matches, usedPairs, arbs, pc,
          poly, kalshi, fuseResults, usedKalshi, sources, results, response,
          cursor, textRun, hedgeRun, dash>>

\* what only the scan handler of part_000 in full writes: what each source
\* did, the settled promises and the response
scanVars == <<sources, results, response>>

-----------------------------------------------------------------------------
(* Characters *)

UpperSeq == <<"A","B","C","D","E","F","G","H","I","J","K","L","M",
              "N","O","P","Q","R","S","T","U","V","W","X","Y","Z">>

LowerSeq == <<"a","b","c","d","e","f","g","h","i","j","k","l","m",
              "n","o","p","q","r","s","t","u","v","w","x","y","z">>

Digits == {"0","1","2","3","4","5","6","7","8","9"}

\* \w of a JavaScript regular expression
IsWordChar(c) ==
    \/ \E k \in 1..26 : c = UpperSeq[k] \/ c = LowerSeq[k]
    \/ c \in Digits
    \/ c = "_"

\* \s of a JavaScript regular expression (the ASCII part)
IsSpace(c) == c \in {" ", "\t", "\n", "\r"}

\* the string a sequence of characters spells
RECURSIVE Join(_)
Join(cs) == IF cs = <<>> THEN "" ELSE Head(cs) \o Join(Tail(cs))

-----------------------------------------------------------------------------
(* normalize *)

LowerChar(c) ==
    IF \E k \in 1..26 : c = UpperSeq[k]
    THEN LowerSeq[CHOOSE k \in 1..26 : c = UpperSeq[k]]
    ELSE c

toLowerCase(text) == [i \in 1..Len(text) |-> LowerChar(text[i])]

RECURSIVE trimStart(_)
trimStart(text) ==
    IF text # <<>> /\ IsSpace(Head(text)) THEN trimStart(Tail(text)) ELSE text

RECURSIVE trimEnd(_)
trimEnd(text) ==
    IF text # <<>> /\ IsSpace(text[Len(text)])
    THEN trimEnd(SubSeq(text, 1, Len(text) - 1))
    ELSE text

trim(text) == trimEnd(trimStart(text))

\* text.replace(/[^\w\s]/g, '')
StripPunctuation(text) == SelectSeq(text, LAMBDA c : IsWordChar(c) \/ IsSpace(c))

\* \b at the gap before position p (1..Len+1): exactly one side is a word character
WordBoundary(text, p) ==
    LET before == p > 1 /\ IsWordChar(text[p - 1])
        after  == p <= Len(text) /\ IsWordChar(text[p])
    IN  before # after

\* does /\bw\b/ match at position i
WordMatchAt(text, w, i) ==
    /\ i + Len(w) - 1 <= Len(text)
    /\ Join(SubSeq(text, i, i + Len(w) - 1)) = w
    /\ WordBoundary(text, i)
    /\ WordBoundary(text, i + Len(w))

\* the same replace without the g flag: the first match alone goes
RECURSIVE RemoveFirstWordFrom(_, _, _)
RemoveFirstWordFrom(text, w, i) ==
    IF i > Len(text) THEN <<>>
    ELSE IF WordMatchAt(text, w, i) THEN SubSeq(text, i + Len(w), Len(text))
    ELSE <<text[i]>> \o RemoveFirstWordFrom(text, w, i + 1)

RemoveFirstWord(text, w) == RemoveFirstWordFrom(text, w, 1)

\* text.replace(new RegExp(`\\b${w}\\b`, 'g'), ''), scanning from position i
RECURSIVE RemoveWordFrom(_, _, _)
RemoveWordFrom(text, w, i) ==
    IF i > Len(text) THEN <<>>
    ELSE IF WordMatchAt(text, w, i) THEN RemoveWordFrom(text, w, i + Len(w))
    ELSE <<text[i]>> \o RemoveWordFrom(text, w, i + 1)

RemoveWord(text, w) == RemoveWordFrom(text, w, 1)

\* the stop words normalize removes, in the order of its loop
NormalizeWords ==
    <<"will", "the", "be", "to", "in", "on", "by", "of", "a", "an", "is",
      "before", "after">>

\* the same list in route.ts, which has no "before" and no "after"
RouteNormalizeWords ==
    <<"will", "the", "be", "to", "in", "on", "by", "of", "a", "an", "is">>

RECURSIVE RemoveWords(_, _)
RemoveWords(text, ws) ==
    IF ws = <<>> THEN text ELSE RemoveWords(RemoveWord(text, Head(ws)), Tail(ws))

\* text.replace(/\s+/g, ' ')
RECURSIVE CollapseSpaces(_)
CollapseSpaces(text) ==
    IF text = <<>> THEN <<>>
    ELSE IF IsSpace(Head(text)) THEN <<" ">> \o CollapseSpaces(trimStart(text))
    ELSE <<Head(text)>> \o CollapseSpaces(Tail(text))

\* the body both revisions of normalize share, over the stop words ws
NormalizeWith(text, ws) ==
    LET t1 == trim(toLowerCase(text))
        t2 == StripPunctuation(t1)
        t3 == RemoveWords(t2, ws)
    IN  trim(CollapseSpaces(t3))

normalize(text) == NormalizeWith(text, NormalizeWords)

normalizeRoute(text) == NormalizeWith(text, RouteNormalizeWords)

-----------------------------------------------------------------------------
(* getKeywords *)

STOP_WORDS ==
    {"january","february","march","april","june","july","august","september",
     "october","november","december",
     "than","more","less","most","least","much","many","some","other","this",
     "that","with","from","have","been",
     "what","when","where","which","while","would","could","should","does",
     "about","into","over","under",
     "between","through","during","each","every","both","either","neither",
     "first","second","third","last",
     "next","2024","2025","2026","2027","2028","2029","2030","end","start",
     "year","month","week","day",
     "united","states","world","country"}

\* text.split(' '): the pieces between single spaces ("" splits to [""])
RECURSIVE SplitFrom(_, _)
SplitFrom(text, cur) ==
    IF text = <<>> THEN <<cur>>
    ELSE IF Head(text) = " " THEN <<cur>> \o SplitFrom(Tail(text), <<>>)
    ELSE SplitFrom(Tail(text), Append(cur, Head(text)))

split(text) == SplitFrom(text, <<>>)

\* /^\d+$/.test(w)
AllDigits(w) == w # <<>> /\ \A i \in 1..Len(w) : w[i] \in Digits

\* getKeywords without the test for digits
getKeywordsKeepingDigits(text) ==
    LET ws == split(normalize(text))
    IN  { Join(ws[i]) : i \in { k \in 1..Len(ws) :
              /\ Len(ws[k]) > 3
              /\ Join(ws[k]) \notin STOP_WORDS } }

\* getKeywords without the STOP_WORDS test
getKeywordsKeepingStopWords(text) ==
    LET ws == split(normalize(text))
    IN  { Join(ws[i]) : i \in { k \in 1..Len(ws) :
              /\ Len(ws[k]) > 3
              /\ ~AllDigits(ws[k]) } }

getKeywords(text) ==
    LET ws == split(normalize(text))
    IN  { Join(ws[i]) : i \in { k \in 1..Len(ws) :
              /\ Len(ws[k]) > 3
              /\ Join(ws[k]) \notin STOP_WORDS
              /\ ~AllDigits(ws[k]) } }

-----------------------------------------------------------------------------
(* The question texts of the model *)

\* "Senate bill pass vote": keywords senate, bill, pass, vote
QSenateVote ==
    <<"S","e","n","a","t","e"," ","b","i","l","l"," ","p","a","s","s"," ","v",
      "o","t","e">>

\* "Will the bill pass by June?": keywords bill, pass
QBillJune ==
    <<"W","i","l","l"," ","t","h","e"," ","b","i","l","l"," ","p","a","s","s",
      " ","b","y"," ","J","u","n","e","?">>

\* "Bill passes before June": keywords bill, passes
QPassesJune ==
    <<"B","i","l","l"," ","p","a","s","s","e","s"," ","b","e","f","o","r","e",
      " ","J","u","n","e">>

\* "Bill passes Senate floor": keywords bill, passes, senate, floor
QSenateFloor ==
    <<"B","i","l","l"," ","p","a","s","s","e","s"," ","S","e","n","a","t","e",
      " ","f","l","o","o","r">>

\* "Will it?": normalizes to "it"
QShort == <<"W","i","l","l"," ","i","t","?">>

Questions == {QSenateVote, QBillJune, QPassesJune, QSenateFloor}

\* "Senate bill floor": keywords senate, bill, floor
QThreeWords ==
    <<"S","e","n","a","t","e"," ","b","i","l","l"," ","f","l","o","o","r">>

\* "Senate?": one keyword, senate
QSenate == <<"S","e","n","a","t","e","?">>

\* the empty question a fetcher writes for a market without question text
QEmpty == <<>>

\* a question of two spaces
QBlank == <<" "," ">>

\* question texts with fewer than two keywords, next to two that match
EdgeQuestions == {QSenateVote, QBillJune, QThreeWords, QSenate, QEmpty, QBlank}

\* the question texts of the listings handed to matchMarkets
RouteQuestions == {QSenateVote, QBillJune, QShort}

\* normalize(m.question) of route.ts for the question texts of the model, each
\* computed once
RouteNormalTable == [q \in RouteQuestions |-> normalizeRoute(q)]

RouteNormalOf(q) == RouteNormalTable[q]

\* getKeywords(m.question) for the question texts of the model, each computed
\* once: the matcher reads the keywords of a listing here
KeywordTable == [q \in Questions \cup EdgeQuestions |-> getKeywords(q)]

KeywordsOf(q) == KeywordTable[q]

-----------------------------------------------------------------------------
(* Markets.  The url and event fields of a Market are carried through       *)
(* unread by the matcher and the evaluator and are left out.                *)

\* the platform names the fetchers write, in the order GET concatenates them
PLATFORMS == <<"Polymarket", "Kalshi", "Manifold", "Metaculus">>

\* the id prefix each fetcher writes
IdPrefix(platform) ==
    CASE platform = "Polymarket" -> "poly-"
      [] platform = "Kalshi"     -> "kalshi-"
      [] platform = "Manifold"   -> "manifold-"
      [] platform = "Metaculus"  -> "metaculus-"

\* the ids of the model, in the order Array.prototype.sort() puts strings
\* (UTF-16 code units): "kalshi-1" < "kalshi-2" < "manifold-1" < ...
SortedIds ==
    <<"kalshi-1", "kalshi-2", "kalshi-3", "kalshi-4", "kalshi-5",
      "manifold-1", "manifold-2", "manifold-3", "manifold-4", "manifold-5",
      "metaculus-1", "metaculus-2", "metaculus-3", "metaculus-4", "metaculus-5",
      "poly-1", "poly-2", "poly-3", "poly-4", "poly-5">>

IdRank(id) == CHOOSE k \in 1..Len(SortedIds) : SortedIds[k] = id

\* pairKey made of the id of the first listing alone
pairKeyOfFirstId(idA, idB) == idA

\* [idA, idB].sort().join('|')
pairKey(idA, idB) ==
    IF IdRank(idA) <= IdRank(idB) THEN idA \o "|" \o idB ELSE idB \o "|" \o idA

\* RoundPercent with Math.floor in place of Math.round
FloorPercent(n, d) == (100 * n) \div d

\* Math.round(n / d * 100) for 0 <= n, 0 < d: halves round up
RoundPercent(n, d) == (200 * n + d) \div (2 * d)

Min(x, y) == IF x <= y THEN x ELSE y
Max(x, y) == IF x >= y THEN x ELSE y

-----------------------------------------------------------------------------
(* matchAllMarkets *)

\* Object.keys(byPlatform): the platforms of ms in order of first appearance
RECURSIVE PlatformsOf(_)
PlatformsOf(ms) ==
    IF ms = <<>> THEN <<>>
    ELSE LET rest == PlatformsOf(SubSeq(ms, 1, Len(ms) - 1))
             p    == ms[Len(ms)].platform
         IN  IF \E k \in 1..Len(rest) : rest[k] = p THEN rest ELSE Append(rest, p)

\* GroupOf holding every market, whatever its platform
GroupOfAnyPlatform(ms, p) == [k \in 1..Len(ms) |-> k]

\* byPlatform[p]: the positions in ms of the markets of platform p, in order
RECURSIVE GroupOf(_, _)
GroupOf(ms, p) ==
    IF ms = <<>> THEN <<>>
    ELSE LET rest == GroupOf(SubSeq(ms, 1, Len(ms) - 1), p)
         IN  IF ms[Len(ms)].platform = p THEN Append(rest, Len(ms)) ELSE rest

Overlap(aWords, bWords) == Cardinality(aWords \cap bWords)

\* MeetsFloor with a floor of one shared keyword
MeetsFloorOfOne(bWords, overlap) == Cardinality(bWords) >= 2 /\ overlap >= 1

\* MeetsFloor asking for one shared keyword and no size of bWords
MeetsFloorNoSizeCheck(bWords, overlap) == overlap >= 1

\* neither of the two continue statements of the inner loop is taken
MeetsFloor(bWords, overlap) == Cardinality(bWords) >= 2 /\ overlap >= 2

\* Improves without the threshold test
ImprovesOnBestOnly(score, bestScore, th) == score > bestScore

\* Improves with >= in place of >
ImprovesOrTies(score, bestScore, th) == score >= bestScore /\ score >= th

\* score > bestScore && score >= threshold
Improves(score, bestScore, th) == score > bestScore /\ score >= th

\* the inner loop over bKeywords from its k-th entry on: the best candidate so far
\* is best.market (0 is null) with best.score
RECURSIVE ScanCandidates(_, _, _, _, _, _)
ScanCandidates(ms, aWords, groupB, k, th, best) ==
    IF k > Len(groupB) THEN best
    ELSE LET mB      == groupB[k]
             bWords  == KeywordsOf(ms[mB].question)
             overlap == Overlap(aWords, bWords)
             score   == RoundPercent(overlap, Min(Cardinality(aWords), Cardinality(bWords)))
             next    == IF MeetsFloor(bWords, overlap) /\ Improves(score, best.score, th)
                        THEN [score |-> score, market |-> mB]
                        ELSE best
         IN  ScanCandidates(ms, aWords, groupB, k + 1, th, next)

\* BestCandidate taking the first listing of the other platform unscored
BestCandidateFirst(ms, mA, groupB, th) == [score |-> 100, market |-> groupB[1]]

BestCandidate(ms, mA, groupB, th) ==
    ScanCandidates(ms, KeywordsOf(ms[mA].question), groupB, 1, th,
                   [score |-> 0, market |-> 0])

\* IsNewPair without the look-up
IsNewPairAlways(used, key) == TRUE

\* the de-duplication check of one accepted candidate: !usedPairs.has(pairKey)
IsNewPair(used, key) == key \notin used

\* EmitFor without usedPairs.add(pairKey)
EmitForWithoutAdd(ms, mA, groupB, th, acc) ==
    LET best == BestCandidate(ms, mA, groupB, th)
        key  == pairKey(ms[mA].id, ms[best.market].id)
    IN  IF Cardinality(KeywordsOf(ms[mA].question)) < 2 \/ best.market = 0 THEN acc
        ELSE IF ~IsNewPair(acc.usedPairs, key) THEN acc
        ELSE [matches   |-> Append(acc.matches,
                                   [marketA |-> mA, marketB |-> best.market,
                                    match_score |-> best.score]),
              usedPairs |-> acc.usedPairs]

\* EmitFor with a de-duplication keyed on the id of the counterpart alone
EmitForOncePerCounterpart(ms, mA, groupB, th, acc) ==
    LET best == BestCandidate(ms, mA, groupB, th)
        key  == ms[best.market].id
    IN  IF Cardinality(KeywordsOf(ms[mA].question)) < 2 \/ best.market = 0 THEN acc
        ELSE IF ~IsNewPair(acc.usedPairs, key) THEN acc
        ELSE [matches   |-> Append(acc.matches,
                                   [marketA |-> mA, marketB |-> best.market,
                                    match_score |-> best.score]),
              usedPairs |-> acc.usedPairs \cup {key}]

\* the body of the loop over groupA for its k-th market, on the accumulated
\* acc = [matches, usedPairs]
EmitFor(ms, mA, groupB, th, acc) ==
    LET best == BestCandidate(ms, mA, groupB, th)
        key  == pairKey(ms[mA].id, ms[best.market].id)
    IN  IF Cardinality(KeywordsOf(ms[mA].question)) < 2 \/ best.market = 0 THEN acc
        ELSE IF ~IsNewPair(acc.usedPairs, key) THEN acc
        ELSE [matches   |-> Append(acc.matches,
                                   [marketA |-> mA, marketB |-> best.market,
                                    match_score |-> best.score]),
              usedPairs |-> acc.usedPairs \cup {key}]

\* one platform-pair pass: the loop over groupA from its k-th market on
RECURSIVE MatchPass(_, _, _, _, _, _)
MatchPass(ms, groupA, groupB, k, th, acc) ==
    IF k > Len(groupA) THEN acc
    ELSE MatchPass(ms, groupA, groupB, k + 1, th,
                   EmitFor(ms, groupA[k], groupB, th, acc))

\* the loops over i and j > i, from the pair (i, j) on
RECURSIVE MatchPairs(_, _, _, _, _, _)
MatchPairs(ms, platforms, i, j, th, acc) ==
    IF i > Len(platforms) THEN acc
    ELSE IF j > Len(platforms) THEN MatchPairs(ms, platforms, i + 1, i + 2, th, acc)
    ELSE MatchPairs(ms, platforms, i, j + 1, th,
                    MatchPass(ms, GroupOf(ms, platforms[i]), GroupOf(ms, platforms[j]),
                              1, th, acc))

\* matchAllMarkets with j starting at i for the first platform
matchAllMarketsFromSelf(ms, th) ==
    MatchPairs(ms, PlatformsOf(ms), 1, 1, th, [matches |-> <<>>, usedPairs |-> {}])

\* the result: [matches, usedPairs]
matchAllMarkets(ms, th) ==
    MatchPairs(ms, PlatformsOf(ms), 1, 2, th, [matches |-> <<>>, usedPairs |-> {}])

-----------------------------------------------------------------------------
(* findArbitrage *)

DigitSeq == <<"0","1","2","3","4","5","6","7","8","9">>

\* Prices, costs and spreads are JavaScript numbers, counted here in
\* hundredths.  NaN, which parseFloat returns for text that is no number, is
\* the one value below that is no count of hundredths; the operations on
\* numbers treat it as JavaScript does.
NaN == 0 - 100000

IsNaN(x) == x = NaN

\* x + y and x - y
Plus(x, y) == IF IsNaN(x) \/ IsNaN(y) THEN NaN ELSE x + y
Minus(x, y) == IF IsNaN(x) \/ IsNaN(y) THEN NaN ELSE x - y

\* x > y and x >= y: false when either is NaN
Gt(x, y) == ~IsNaN(x) /\ ~IsNaN(y) /\ x > y
Ge(x, y) == ~IsNaN(x) /\ ~IsNaN(y) /\ x >= y

\* Math.max(x, y): NaN when either is NaN
MathMax(x, y) == IF IsNaN(x) \/ IsNaN(y) THEN NaN ELSE Max(x, y)

\* price.toFixed(2) of a price counted in hundredths
toFixed2(p) ==
    IF IsNaN(p) THEN "NaN"
    ELSE DigitSeq[(p \div 100) + 1] \o "." \o DigitSeq[((p \div 10) % 10) + 1]
             \o DigitSeq[(p % 10) + 1]

Strategy1(a, b) ==
    "BUY YES@" \o a.platform \o "($" \o toFixed2(a.yes_price) \o ") + BUY NO@"
        \o b.platform \o "($" \o toFixed2(b.no_price) \o ")"

Strategy2(a, b) ==
    "BUY NO@" \o a.platform \o "($" \o toFixed2(a.no_price) \o ") + BUY YES@"
        \o b.platform \o "($" \o toFixed2(b.yes_price) \o ")"

Cost1(a, b) == Plus(a.yes_price, b.no_price)
Cost2(a, b) == Plus(a.no_price, b.yes_price)
Spread1(a, b) == Minus(100, Cost1(a, b))
Spread2(a, b) == Minus(100, Cost2(a, b))

\* IsOpportunity with >= for >
IsOpportunityAtBreakEven(a, b) == Ge(Spread1(a, b), 0) \/ Ge(Spread2(a, b), 0)

\* spread1 > 0 || spread2 > 0
IsOpportunity(a, b) == Gt(Spread1(a, b), 0) \/ Gt(Spread2(a, b), 0)

\* PrefersHedge1 with > for >=
PrefersHedge1Strictly(a, b) == Gt(Spread1(a, b), Spread2(a, b))

\* spread1 >= spread2
PrefersHedge1(a, b) == Ge(Spread1(a, b), Spread2(a, b))

\* a.question.slice(0, 80)
Slice80(q) == SubSeq(q, 1, Min(80, Len(q)))

\* the Arb pushed for the match m of markets a and b
ArbOf(m, a, b) ==
    [question    |-> Slice80(a.question),
     match_score |-> m.match_score,
     spread      |-> MathMax(Spread1(a, b), Spread2(a, b)),
     cost        |-> IF PrefersHedge1(a, b) THEN Cost1(a, b) ELSE Cost2(a, b),
     strategy    |-> IF PrefersHedge1(a, b) THEN Strategy1(a, b) ELSE Strategy2(a, b),
     platformA   |-> a.platform, platformB |-> b.platform,
     yesA |-> a.yes_price, noA |-> a.no_price,
     yesB |-> b.yes_price, noB |-> b.no_price]

\* the loop over matches: the arbs pushed, in order
RECURSIVE CollectArbs(_, _)
CollectArbs(ms, mts) ==
    IF mts = <<>> THEN <<>>
    ELSE LET m == Head(mts)
             a == ms[m.marketA]
             b == ms[m.marketB]
         IN  (IF IsOpportunity(a, b) THEN <<ArbOf(m, a, b)>> ELSE <<>>)
                 \o CollectArbs(ms, Tail(mts))

\* InsertSorted putting x before the elements of the same spread
RECURSIVE InsertSortedBeforeTies(_, _)
InsertSortedBeforeTies(s, x) ==
    IF s = <<>> THEN <<x>>
    ELSE IF ~Ge(x.spread, Head(s).spread) THEN <<Head(s)>> \o InsertSortedBeforeTies(Tail(s), x)
    ELSE <<x>> \o s

\* where x goes in the sorted s: after every element the comparator
\* (a, b) => b.spread - a.spread does not put behind it, that is, whose spread
\* x.spread does not exceed (a difference of NaN compares as 0)
RECURSIVE InsertSorted(_, _)
InsertSorted(s, x) ==
    IF s = <<>> THEN <<x>>
    ELSE IF ~Gt(x.spread, Head(s).spread) THEN <<Head(s)>> \o InsertSorted(Tail(s), x)
    ELSE <<x>> \o s

\* arbs.sort((a, b) => b.spread - a.spread): descending, stable
RECURSIVE SortBySpread(_)
SortBySpread(s) ==
    IF s = <<>> THEN <<>>
    ELSE InsertSorted(SortBySpread(SubSeq(s, 1, Len(s) - 1)), s[Len(s)])

\* findArbitrage without the sort
findArbitrageUnsorted(ms, mts) == CollectArbs(ms, mts)

findArbitrage(ms, mts) == SortBySpread(CollectArbs(ms, mts))

-----------------------------------------------------------------------------
(* The listings of the model *)

\* no promise of the scan handler is in flight and no response is built
NoScan == sources = <<>> /\ results = <<>> /\ response = <<>>

\* (yes_price, no_price) of a listing, in hundredths
PriceProfiles == {<<40, 55>>, <<50, 42>>}

\* the thresholds matchAllMarkets is called with; DefaultThreshold is its default
DefaultThreshold == 50
Thresholds == {DefaultThreshold, 65}

\* the most listings one scan fetches
MaxMarkets == 3

\* the ids a platform's listings can carry
IdsOf(platform) == {IdPrefix(platform) \o "1", IdPrefix(platform) \o "2"}

\* the Market records a fetcher of the platform can push
MarketsOf(platform) ==
    { [platform |-> platform, id |-> id, question |-> q,
       yes_price |-> pr[1], no_price |-> pr[2]] :
      id \in IdsOf(platform), q \in Questions, pr \in PriceProfiles }

\* the lists of n listings one fetcher can return.  The code compares ids for
\* equality and orders them only against ids of another platform, where the
\* prefix decides; so the first listing of a platform carries its first id.
FetchedLists(platform, n) ==
    { l \in [1..n -> MarketsOf(platform)] :
        n > 0 => l[1].id = IdPrefix(platform) \o "1" }

-----------------------------------------------------------------------------
(* The scan: GET fetches, matches and evaluates *)

\* allMarkets = [...poly, ...kalshi, ...manifold, ...metaculus]
Init ==
    /\ \E n1 \in 0..MaxMarkets, n2 \in 0..MaxMarkets,
          n3 \in 0..MaxMarkets, n4 \in 0..MaxMarkets :
          /\ n1 + n2 + n3 + n4 <= MaxMarkets
          /\ \E l1 \in FetchedLists(PLATFORMS[1], n1),
                l2 \in FetchedLists(PLATFORMS[2], n2),
                l3 \in FetchedLists(PLATFORMS[3], n3),
                l4 \in FetchedLists(PLATFORMS[4], n4) :
                allMarkets = l1 \o l2 \o l3 \o l4
    /\ threshold = DefaultThreshold
    /\ matches = <<>>
    /\ usedPairs = {}
    /\ arbs = <<>>
    /\ pc = "fetched"
    /\ poly = <<>>
    /\ kalshi = <<>>
    /\ fuseResults = <<>>
    /\ usedKalshi = {}
    /\ NoScan
    /\ cursor = <<>>
    /\ textRun = <<>>
    /\ hedgeRun = <<>>
    /\ dash = <<>>

\* const matches = matchAllMarkets(allMarkets), or a call with another threshold
MatchAllMarkets ==
    /\ pc = "fetched"
    /\ \E th \in Thresholds :
          LET r == matchAllMarkets(allMarkets, th)
          IN  /\ threshold' = th
              /\ matches' = r.matches
              /\ usedPairs' = r.usedPairs
    /\ pc' = "matched"
    /\ UNCHANGED <<allMarkets, arbs, poly, kalshi, fuseResults, usedKalshi, scanVars, cursor, textRun, hedgeRun, dash>>

\* const arbs = findArbitrage(matches)
FindArbitrage ==
    /\ pc = "matched"
    /\ arbs' = findArbitrage(allMarkets, matches)
    /\ pc' = "done"
    /\ UNCHANGED <<allMarkets, threshold, matches, usedPairs, poly, kalshi,
                   fuseResults, usedKalshi, scanVars, cursor, textRun, hedgeRun, dash>>

Next == MatchAllMarkets \/ FindArbitrage

Spec == Init /\ [][Next]_vars

-----------------------------------------------------------------------------
(* findArbitrage as a function of its Match list.  The matches pair the     *)
(* i-th of k Polymarket listings with the i-th of k Kalshi listings; the    *)
(* prices of every listing range over ArbPriceProfiles.                     *)

\* the most Match records handed to findArbitrage
MaxMatches == 3

\* (yes_price, no_price): with these, a pair of listings has hedge 1 alone,
\* hedge 2 alone, both, both equal, or neither in profit, and a spread of 0
ArbPriceProfiles == {<<40, 55>>, <<50, 42>>, <<60, 60>>, <<30, 35>>}

ArbListings(platform) ==
    { [platform |-> platform, id |-> IdPrefix(platform) \o "1",
       question |-> QBillJune, yes_price |-> pr[1], no_price |-> pr[2]] :
      pr \in ArbPriceProfiles }

InitArb ==
    /\ \E k \in 0..MaxMatches :
          /\ \E la \in [1..k -> ArbListings("Polymarket")],
                lb \in [1..k -> ArbListings("Kalshi")] :
                allMarkets = la \o lb
          /\ matches = [i \in 1..k |->
                          [marketA |-> i, marketB |-> k + i, match_score |-> 100]]
    /\ threshold = DefaultThreshold
    /\ usedPairs = {}
    /\ arbs = <<>>
    /\ pc = "matched"
    /\ poly = <<>>
    /\ kalshi = <<>>
    /\ fuseResults = <<>>
    /\ usedKalshi = {}
    /\ NoScan
    /\ cursor = <<>>
    /\ textRun = <<>>
    /\ hedgeRun = <<>>
    /\ dash = <<>>

NextArb == FindArbitrage

SpecArb == InitArb /\ [][NextArb]_vars

-----------------------------------------------------------------------------
(* The matcher and the evaluator on listings with degenerate question text: *)
(* Polymarket and Kalshi listings whose questions range over EdgeQuestions. *)

\* the most listings of a scan with degenerate listings
MaxEdgeMarkets == 3

\* (yes_price, no_price) of a listing of the platform: fetchPolymarket pushes
\* parseFloat of each price as it is, NaN for a price that is no number
EdgePriceProfiles(platform) ==
    IF platform = "Polymarket" THEN PriceProfiles \cup {<<NaN, 40>>} ELSE PriceProfiles

\* the Market record of the platform with question q and prices pr, the n-th
\* its fetcher pushes: it carries the platform's n-th id
EdgeMarket(platform, n, q, pr) ==
    [platform |-> platform, id |-> IdPrefix(platform) \o DigitSeq[n + 1],
     question |-> q, yes_price |-> pr[1], no_price |-> pr[2]]

\* the lists of n listings the fetcher of the platform can return
EdgeFetchedLists(platform, n) ==
    { [k \in 1..n |-> EdgeMarket(platform, k, l[k][1], l[k][2])] :
      l \in [1..n -> EdgeQuestions \X EdgePriceProfiles(platform)] }

InitEdge ==
    /\ \E n1 \in 0..MaxEdgeMarkets, n2 \in 0..MaxEdgeMarkets :
          /\ n1 + n2 <= MaxEdgeMarkets
          /\ \E l1 \in EdgeFetchedLists("Polymarket", n1),
                l2 \in EdgeFetchedLists("Kalshi", n2) :
                allMarkets = l1 \o l2
    /\ threshold = DefaultThreshold
    /\ matches = <<>>
    /\ usedPairs = {}
    /\ arbs = <<>>
    /\ pc = "fetched"
    /\ poly = <<>>
    /\ kalshi = <<>>
    /\ fuseResults = <<>>
    /\ usedKalshi = {}
    /\ NoScan
    /\ cursor = <<>>
    /\ textRun = <<>>
    /\ hedgeRun = <<>>
    /\ dash = <<>>

NextEdge == MatchAllMarkets \/ FindArbitrage

SpecEdge == InitEdge /\ [][NextEdge]_vars

-----------------------------------------------------------------------------
(* matchAllMarkets with its platform-pair passes run in any order or        *)
(* interleaved: each pass goes through its groupA in order, and one step is *)
(* the loop body for one market, its de-duplication check and insert        *)
(* included.  cursor[p] is the place in groupA the pass p has come to.      *)

\* the most listings handed to the interleaved matcher
MaxOrderMarkets == 3

OrderPlatforms == <<"Polymarket", "Kalshi", "Manifold">>

OrderQuestions == {QSenateVote, QBillJune, QSenateFloor}

\* the lists of n listings of the platform; ids can repeat
OrderLists(platform, n) ==
    [1..n -> { [platform |-> platform, id |-> id, question |-> q,
                yes_price |-> 40, no_price |-> 55] :
               id \in IdsOf(platform), q \in OrderQuestions }]

\* the platform-pair passes of the loops over i and j > i
PassesOf(ms) ==
    { pr \in (1..Len(PlatformsOf(ms))) \X (1..Len(PlatformsOf(ms))) : pr[1] < pr[2] }

GroupAOf(ms, pass) == GroupOf(ms, PlatformsOf(ms)[pass[1]])
GroupBOf(ms, pass) == GroupOf(ms, PlatformsOf(ms)[pass[2]])

InitOrder ==
    /\ \E n1 \in 0..MaxOrderMarkets, n2 \in 0..MaxOrderMarkets, n3 \in 0..MaxOrderMarkets :
          /\ n1 + n2 + n3 <= MaxOrderMarkets
          /\ \E l1 \in OrderLists(OrderPlatforms[1], n1),
                l2 \in OrderLists(OrderPlatforms[2], n2),
                l3 \in OrderLists(OrderPlatforms[3], n3) :
                allMarkets = l1 \o l2 \o l3
    /\ threshold \in Thresholds
    /\ cursor = [pass \in PassesOf(allMarkets) |-> 1]
    /\ matches = <<>>
    /\ usedPairs = {}
    /\ arbs = <<>>
    /\ pc = "matching"
    /\ poly = <<>>
    /\ kalshi = <<>>
    /\ fuseResults = <<>>
    /\ usedKalshi = {}
    /\ NoScan
    /\ textRun = <<>>
    /\ hedgeRun = <<>>
    /\ dash = <<>>

\* some pass runs its loop body for its next market
EmitNext ==
    /\ pc = "matching"
    /\ \E pass \in DOMAIN cursor :
          /\ cursor[pass] <= Len(GroupAOf(allMarkets, pass))
          /\ LET r == EmitFor(allMarkets, GroupAOf(allMarkets, pass)[cursor[pass]],
                              GroupBOf(allMarkets, pass), threshold,
                              [matches |-> matches, usedPairs |-> usedPairs])
             IN  /\ matches' = r.matches
                 /\ usedPairs' = r.usedPairs
          /\ cursor' = [cursor EXCEPT ![pass] = @ + 1]
    /\ UNCHANGED <<allMarkets, threshold, arbs, pc, poly, kalshi, fuseResults,
                   usedKalshi, scanVars, textRun, hedgeRun, dash>>

\* every pass is through: return matches
ReturnMatches ==
    /\ pc = "matching"
    /\ \A pass \in DOMAIN cursor : cursor[pass] > Len(GroupAOf(allMarkets, pass))
    /\ pc' = "matched"
    /\ UNCHANGED <<allMarkets, threshold, matches, usedPairs, arbs, poly, kalshi,
                   fuseResults, usedKalshi, scanVars, cursor, textRun, hedgeRun, dash>>

NextOrder == EmitNext \/ ReturnMatches

SpecOrder == InitOrder /\ [][NextOrder]_vars

-----------------------------------------------------------------------------
(* normalize and getKeywords as functions of their text.  A text is up to   *)
(* MaxPieces pieces put together: letters that spell stop words when they   *)
(* meet ("a", "n": an; "B", "e": be; with "fore": before), a space, a       *)
(* hyphen, the stop word "than" of STOP_WORDS and the digits "12".          *)

\* the most pieces of a text
MaxPieces == 4

Pieces ==
    { <<"a">>, <<"n">>, <<"B">>, <<"e">>, <<"f","o","r","e">>, <<" ">>, <<"-">>,
      <<"t","h","a","n">>, <<"1","2">> }

RECURSIVE Concat(_)
Concat(ps) == IF ps = <<>> THEN <<>> ELSE Head(ps) \o Concat(Tail(ps))

Texts == UNION { { Concat(ps) : ps \in [1..n -> Pieces] } : n \in 0..MaxPieces }

InitText ==
    /\ \E t \in Texts :
          textRun = [input |-> t, once |-> <<>>, twice |-> <<>>,
                     routeOnce |-> <<>>, routeTwice |-> <<>>, keywords |-> {}]
    /\ pc = "text"
    /\ allMarkets = <<>>
    /\ threshold = DefaultThreshold
    /\ matches = <<>>
    /\ usedPairs = {}
    /\ arbs = <<>>
    /\ poly = <<>>
    /\ kalshi = <<>>
    /\ fuseResults = <<>>
    /\ usedKalshi = {}
    /\ NoScan
    /\ cursor = <<>>
    /\ hedgeRun = <<>>
    /\ dash = <<>>

\* what no step on a text changes
matcherVars == <<allMarkets, threshold, matches, usedPairs, arbs, poly, kalshi,
                 fuseResults, usedKalshi, scanVars, cursor, hedgeRun, dash>>

\* normalize(text) of part_000
Normalize ==
    /\ pc = "text"
    /\ textRun' = [textRun EXCEPT !.once = normalize(textRun.input)]
    /\ pc' = "once"
    /\ UNCHANGED matcherVars

\* normalize of what normalize returned
NormalizeAgain ==
    /\ pc = "once"
    /\ textRun' = [textRun EXCEPT !.twice = normalize(textRun.once)]
    /\ pc' = "twice"
    /\ UNCHANGED matcherVars

\* normalize(text) of route.ts
RouteNormalize ==
    /\ pc = "text"
    /\ textRun' = [textRun EXCEPT !.routeOnce = normalizeRoute(textRun.input)]
    /\ pc' = "routeOnce"
    /\ UNCHANGED matcherVars

RouteNormalizeAgain ==
    /\ pc = "routeOnce"
    /\ textRun' = [textRun EXCEPT !.routeTwice = normalizeRoute(textRun.routeOnce)]
    /\ pc' = "routeTwice"
    /\ UNCHANGED matcherVars

\* getKeywords(text)
GetKeywords ==
    /\ pc = "text"
    /\ textRun' = [textRun EXCEPT !.keywords = getKeywords(textRun.input)]
    /\ pc' = "keywords"
    /\ UNCHANGED matcherVars

NextText ==
    Normalize \/ NormalizeAgain \/ RouteNormalize \/ RouteNormalizeAgain \/ GetKeywords

SpecText == InitText /\ [][NextText]_vars

-----------------------------------------------------------------------------
(* The two hedge spreads of findArbitrage in floating point.  A JavaScript  *)
(* number has a significand of 53 bits and every sum is rounded to it, to   *)
(* the nearest, ties to even.  Here the significand has FloatBits bits and  *)
(* a number is counted in units of 1/FloatOne: up to 2^FloatBits every      *)
(* count is a number, above it every second, then every fourth.             *)

FloatBits == 4

\* the literal 1.0
FloatOne == 32

RECURSIVE Spacing(_)
\* the distance between the numbers next to x: 1 below 2^FloatBits
Spacing(x) == IF x < 2^FloatBits THEN 1 ELSE 2 * Spacing(x \div 2)

\* the number nearest to the exact x, with ties to the even significand
FloatRound(x) ==
    LET s  == Spacing(x)
        lo == (x \div s) * s
        hi == lo + s
    IN  IF x = lo THEN x
        ELSE IF x - lo < hi - x THEN lo
        ELSE IF x - lo > hi - x THEN hi
        ELSE IF (lo \div s) % 2 = 0 THEN lo ELSE hi

\* spread1 ignoring the price of b
FloatSpread1OfAOnly(a, b) == FloatRound(FloatOne - FloatRound(a.yes_price))

\* spread1 = 1.0 - (a.yes_price + b.no_price)
FloatSpread1(a, b) == FloatRound(FloatOne - FloatRound(a.yes_price + b.no_price))

\* spread2 = 1.0 - (a.no_price + b.yes_price)
FloatSpread2(a, b) == FloatRound(FloatOne - FloatRound(a.no_price + b.yes_price))

\* the prices of the model: every number from 0.25 to 0.40625
FloatPrices == { x \in 8..13 : FloatRound(x) = x }

PriceFields == {"yesA", "noA", "yesB", "noB"}

\* the listings a and b of the prices pr
HedgeA(pr) == [yes_price |-> pr.yesA, no_price |-> pr.noA]
HedgeB(pr) == [yes_price |-> pr.yesB, no_price |-> pr.noB]

\* a pair of listings, and the same pair with one price raised
InitHedge ==
    /\ \E pr \in [PriceFields -> FloatPrices], f \in PriceFields, up \in FloatPrices :
          /\ up > pr[f]
          /\ hedgeRun = [base |-> pr, raised |-> [pr EXCEPT ![f] = up], field |-> f,
                         spread1 |-> <<>>, spread2 |-> <<>>]
    /\ pc = "hedge"
    /\ textRun = <<>>
    /\ dash = <<>>
    /\ allMarkets = <<>>
    /\ threshold = DefaultThreshold
    /\ matches = <<>>
    /\ usedPairs = {}
    /\ arbs = <<>>
    /\ poly = <<>>
    /\ kalshi = <<>>
    /\ fuseResults = <<>>
    /\ usedKalshi = {}
    /\ NoScan
    /\ cursor = <<>>

\* what no step on a pair of prices changes
hedgeFrame == <<allMarkets, threshold, matches, usedPairs, arbs, poly, kalshi,
                fuseResults, usedKalshi, scanVars, cursor, textRun, dash>>

\* the two spreads of the pair as it is
EvaluateBase ==
    /\ pc = "hedge"
    /\ hedgeRun' = [hedgeRun EXCEPT
          !.spread1 = <<FloatSpread1(HedgeA(hedgeRun.base), HedgeB(hedgeRun.base))>>,
          !.spread2 = <<FloatSpread2(HedgeA(hedgeRun.base), HedgeB(hedgeRun.base))>>]
    /\ pc' = "base"
    /\ UNCHANGED hedgeFrame

\* the two spreads of the pair with the one price raised
EvaluateRaised ==
    /\ pc = "base"
    /\ hedgeRun' = [hedgeRun EXCEPT
          !.spread1 = Append(@, FloatSpread1(HedgeA(hedgeRun.raised), HedgeB(hedgeRun.raised))),
          !.spread2 = Append(@, FloatSpread2(HedgeA(hedgeRun.raised), HedgeB(hedgeRun.raised)))]
    /\ pc' = "raised"
    /\ UNCHANGED hedgeFrame

NextHedge == EvaluateBase \/ EvaluateRaised

SpecHedge == InitHedge /\ [][NextHedge]_vars

-----------------------------------------------------------------------------
(* The scan handler GET of part_000 in full.  Each of the four fetchers     *)
(* races a timer; when all four races are settled GET gathers the listings, *)
(* matches, evaluates and builds the response.  The response's timestamp,   *)
(* scanTime and debug samples, which read the clock or repeat the matches,  *)
(* are left out.                                                            *)

\* the most listings the four sources hold together
MaxScanMarkets == 3

ScanQuestions == {QSenateVote, QBlank}

\* (yes_price, no_price) of the listings of a platform: a Polymarket listing is
\* in profit against a Kalshi or Manifold one and not against a Metaculus one
ScanPrices(platform) ==
    CASE platform = "Polymarket" -> <<40, 55>>
      [] platform = "Metaculus"  -> <<60, 60>>
      [] OTHER                   -> <<50, 42>>

ScanLists(platform, n) ==
    { [k \in 1..n |-> EdgeMarket(platform, k, l[k], ScanPrices(platform))] :
      l \in [1..n -> ScanQuestions] }

\* what a fetcher does: it returns a list (whole or cut short by an error it
\* caught) or rejects, before its timer fires or after
SourceOutcomes(platform, room) ==
    { [settles |-> st, late |-> lt, list |-> l] :
      st \in {"returns"}, lt \in BOOLEAN,
      l \in UNION { ScanLists(platform, n) : n \in 0..room } }
    \cup { [settles |-> "rejects", late |-> lt, list |-> <<>>] : lt \in BOOLEAN }

NoSource == [settles |-> "pending", late |-> FALSE, list |-> <<>>]

Pending == [status |-> "pending", value |-> <<>>]

\* withTimeout without the timer
withTimeoutNoTimer(src) ==
    IF src.settles = "rejects" THEN [status |-> "rejected", value |-> <<>>]
    ELSE [status |-> "fulfilled", value |-> src.list]

\* how Promise.allSettled sees withTimeout(fetch(), ms, []): the race is
\* fulfilled with the fallback [] when the timer fires first
withTimeout(src) ==
    IF src.late THEN [status |-> "fulfilled", value |-> <<>>]
    ELSE IF src.settles = "rejects" THEN [status |-> "rejected", value |-> <<>>]
    ELSE [status |-> "fulfilled", value |-> src.list]

\* r.status === 'fulfilled' ? r.value : []
ValueOf(r) == IF r.status = "fulfilled" THEN r.value ELSE <<>>

\* the listings the sources settled so far hold
ListingsHeld == Len(sources[1].list) + Len(sources[2].list)
                    + Len(sources[3].list) + Len(sources[4].list)

\* ScanResponse counting in totalMarkets only the listings the matcher can match
ScanResponseOfMatchable(res, ms, mts, as) ==
    [platformCounts |-> [Polymarket |-> Len(ValueOf(res[1])), Kalshi |-> Len(ValueOf(res[2])),
                         Manifold |-> Len(ValueOf(res[3])), Metaculus |-> Len(ValueOf(res[4]))],
     totalMarkets   |-> Cardinality({ k \in 1..Len(ms) :
                                        Cardinality(KeywordsOf(ms[k].question)) >= 2 }),
     matchCount     |-> Len(mts),
     opportunities  |-> as,
     errors         |-> { PLATFORMS[i] : i \in { k \in 1..4 : res[k].status = "rejected" } }]

\* the object GET returns
ScanResponse(res, ms, mts, as) ==
    [platformCounts |-> [Polymarket |-> Len(ValueOf(res[1])), Kalshi |-> Len(ValueOf(res[2])),
                         Manifold |-> Len(ValueOf(res[3])), Metaculus |-> Len(ValueOf(res[4]))],
     totalMarkets   |-> Len(ms),
     matchCount     |-> Len(mts),
     opportunities  |-> as,
     errors         |-> { PLATFORMS[i] : i \in { k \in 1..4 : res[k].status = "rejected" } }]

InitScan ==
    /\ sources = [i \in 1..4 |-> NoSource]
    /\ results = [i \in 1..4 |-> Pending]
    /\ response = <<>>
    /\ cursor = <<>>
    /\ textRun = <<>>
    /\ hedgeRun = <<>>
    /\ dash = <<>>
    /\ pc = "fetching"
    /\ allMarkets = <<>>
    /\ threshold = DefaultThreshold
    /\ matches = <<>>
    /\ usedPairs = {}
    /\ arbs = <<>>
    /\ poly = <<>>
    /\ kalshi = <<>>
    /\ fuseResults = <<>>
    /\ usedKalshi = {}

\* one of the four races settles
Settle ==
    /\ pc = "fetching"
    /\ \E i \in 1..4 :
          /\ results[i] = Pending
          /\ \E src \in SourceOutcomes(PLATFORMS[i], MaxScanMarkets - ListingsHeld) :
                /\ sources' = [sources EXCEPT ![i] = src]
                /\ results' = [results EXCEPT ![i] = withTimeout(src)]
    /\ UNCHANGED <<allMarkets, threshold, matches, usedPairs, arbs, pc, poly, kalshi,
                   fuseResults, usedKalshi, response, cursor, textRun, hedgeRun, dash>>

\* Promise.allSettled resolves:
\* allMarkets = [...poly, ...kalshi, ...manifold, ...metaculus]
Gather ==
    /\ pc = "fetching"
    /\ \A i \in 1..4 : results[i] # Pending
    /\ allMarkets' = ValueOf(results[1]) \o ValueOf(results[2])
                         \o ValueOf(results[3]) \o ValueOf(results[4])
    /\ pc' = "fetched"
    /\ UNCHANGED <<threshold, matches, usedPairs, arbs, poly, kalshi, fuseResults,
                   usedKalshi, scanVars, cursor, textRun, hedgeRun, dash>>

\* return NextResponse.json({...})
Respond ==
    /\ pc = "done"
    /\ response' = ScanResponse(results, allMarkets, matches, arbs)
    /\ pc' = "responded"
    /\ UNCHANGED <<allMarkets, threshold, matches, usedPairs, arbs, poly, kalshi,
                   fuseResults, usedKalshi, sources, results, cursor, textRun, hedgeRun, dash>>

NextScan == Settle \/ Gather \/ MatchAllMarkets \/ FindArbitrage \/ Respond

SpecScan == InitScan /\ [][NextScan]_vars

-----------------------------------------------------------------------------
(* matchMarkets of route.ts: a fuzzy pass over Fuse.js results, then a      *)
(* keyword pass, sharing usedKalshi.  A Match refers to its listings by     *)
(* their positions in poly and kalshi.  Fuse.js is a library: what          *)
(* fuse.search returns first for the i-th Polymarket listing is the input   *)
(* fuseResults[i], NoResult or [item, score], its score in units of 0.0001. *)

NoResult == [item |-> 0, score |-> 0]

\* Math.round((1 - (best.score || 1)) * 100): a score of 0 is falsy
FuzzyScore(r) ==
    LET s == IF r.score = 0 THEN 10000 ELSE r.score
    IN  (10000 - s + 50) \div 100

\* the first loop keeping the ids it uses to itself
FuzzyStepWithoutAdd(ps, ks, fuse, i, th, acc) ==
    LET best == fuse[i]
    IN  IF /\ Len(RouteNormalOf(ps[i].question)) >= 10
           /\ best # NoResult
           /\ FuzzyScore(best) >= th
        THEN [matches    |-> Append(acc.matches,
                                    [polymarket |-> i, kalshi |-> best.item,
                                     match_score |-> FuzzyScore(best)]),
              usedKalshi |-> acc.usedKalshi]
        ELSE acc

\* the body of the first loop for the i-th Polymarket listing, on the
\* accumulated acc = [matches, usedKalshi]
FuzzyStep(ps, ks, fuse, i, th, acc) ==
    LET best == fuse[i]
        kid  == ks[best.item].id
    IN  IF Len(RouteNormalOf(ps[i].question)) < 10 THEN acc
        ELSE IF best = NoResult THEN acc
        ELSE IF kid \in acc.usedKalshi THEN acc
        ELSE IF FuzzyScore(best) >= th
        THEN [matches    |-> Append(acc.matches,
                                    [polymarket |-> i, kalshi |-> best.item,
                                     match_score |-> FuzzyScore(best)]),
              usedKalshi |-> acc.usedKalshi \cup {kid}]
        ELSE acc

RECURSIVE FuzzyPass(_, _, _, _, _, _)
FuzzyPass(ps, ks, fuse, i, th, acc) ==
    IF i > Len(ps) THEN acc
    ELSE FuzzyPass(ps, ks, fuse, i + 1, th, FuzzyStep(ps, ks, fuse, i, th, acc))

\* new Set(normalize(q).split(' ').filter(w => w.length > 3))
routeKeywords(text) ==
    LET ws == split(normalizeRoute(text))
    IN  { Join(ws[i]) : i \in { k \in 1..Len(ws) : Len(ws[k]) > 3 } }

\* the same for the question texts of the model, each computed once
RouteWordsTable == [q \in RouteQuestions |-> routeKeywords(q)]

RouteWords(q) == RouteWordsTable[q]

\* the inner loop over kalshi from its k-th listing on
RECURSIVE ScanKalshi(_, _, _, _, _, _)
ScanKalshi(ks, pWords, used, k, th, best) ==
    IF k > Len(ks) THEN best
    ELSE LET kWords  == RouteWords(ks[k].question)
             overlap == Overlap(pWords, kWords)
             score   == RoundPercent(overlap, Max(Cardinality(pWords), Cardinality(kWords)))
             next    == IF /\ ks[k].id \notin used
                           /\ score > best.score
                           /\ score >= th
                        THEN [score |-> score, market |-> k]
                        ELSE best
         IN  ScanKalshi(ks, pWords, used, k + 1, th, next)

\* the body of the second loop for the i-th Polymarket listing
KeywordStep(ps, ks, i, th, acc) ==
    LET pWords == RouteWords(ps[i].question)
        best   == ScanKalshi(ks, pWords, acc.usedKalshi, 1, th,
                             [score |-> 0, market |-> 0])
    IN  IF Cardinality(pWords) < 2 THEN acc
        ELSE IF /\ best.market # 0
                /\ best.score >= th
                /\ ks[best.market].id \notin acc.usedKalshi
        THEN [matches    |-> Append(acc.matches,
                                    [polymarket |-> i, kalshi |-> best.market,
                                     match_score |-> best.score]),
              usedKalshi |-> acc.usedKalshi \cup {ks[best.market].id}]
        ELSE acc

RECURSIVE KeywordPass(_, _, _, _, _)
KeywordPass(ps, ks, i, th, acc) ==
    IF i > Len(ps) THEN acc
    ELSE KeywordPass(ps, ks, i + 1, th, KeywordStep(ps, ks, i, th, acc))

\* the result: [matches, usedKalshi]
matchMarkets(ps, ks, fuse, th) ==
    KeywordPass(ps, ks, 1, th,
                FuzzyPass(ps, ks, fuse, 1, th, [matches |-> <<>>, usedKalshi |-> {}]))

\* the Arb findArbitrage of route.ts pushes for the match m of pm and km
RouteArbOf(m, pm, km) ==
    [question    |-> Slice80(pm.question),
     match_score |-> m.match_score,
     spread      |-> MathMax(Spread1(pm, km), Spread2(pm, km)),
     cost        |-> IF PrefersHedge1(pm, km) THEN Cost1(pm, km) ELSE Cost2(pm, km),
     strategy    |-> IF PrefersHedge1(pm, km)
                     THEN "BUY YES@Poly($" \o toFixed2(pm.yes_price)
                              \o ") + BUY NO@Kalshi($" \o toFixed2(km.no_price) \o ")"
                     ELSE "BUY NO@Poly($" \o toFixed2(pm.no_price)
                              \o ") + BUY YES@Kalshi($" \o toFixed2(km.yes_price) \o ")",
     poly_yes |-> pm.yes_price, poly_no |-> pm.no_price,
     kalshi_yes |-> km.yes_price, kalshi_no |-> km.no_price]

RECURSIVE RouteCollectArbs(_, _, _)
RouteCollectArbs(ps, ks, mts) ==
    IF mts = <<>> THEN <<>>
    ELSE LET m  == Head(mts)
             pm == ps[m.polymarket]
             km == ks[m.kalshi]
         IN  (IF IsOpportunity(pm, km) THEN <<RouteArbOf(m, pm, km)>> ELSE <<>>)
                 \o RouteCollectArbs(ps, ks, Tail(mts))

routeFindArbitrage(ps, ks, mts) == SortBySpread(RouteCollectArbs(ps, ks, mts))

\* the default threshold of matchMarkets
RouteDefaultThreshold == 40
RouteThresholds == {RouteDefaultThreshold, 65}

\* the most listings the two fetchers of route.ts return together
MaxRouteListings == 3

\* the scores Fuse.js gives a listing whose normalized text is the query: 0, or
\* with the versions that keep a perfect score above 0, next to 0
PerfectScores == {0, 1}

\* the scores Fuse.js gives another listing it returns first: 0.3 and 0.7
FuseScores == {3000, 7000}

RouteIds(platform) == IF platform = "Polymarket" THEN {"c1", "c2"} ELSE {"t1", "t2"}

RoutePrices(platform) == IF platform = "Polymarket" THEN <<40, 55>> ELSE <<50, 42>>

RouteMarketsOf(platform) ==
    { [platform |-> platform, id |-> id, question |-> q,
       yes_price |-> RoutePrices(platform)[1], no_price |-> RoutePrices(platform)[2]] :
      id \in RouteIds(platform), q \in RouteQuestions }

\* ids are only compared for equality: the first listing carries the first id
RouteFetchedLists(platform, n) ==
    { l \in [1..n -> RouteMarketsOf(platform)] :
        n > 0 => l[1].id = (CHOOSE id \in RouteIds(platform) : id \in {"c1", "t1"}) }

\* the Kalshi listings whose normalized text is the query of the i-th
\* Polymarket listing
ExactItems(ps, ks, i) ==
    { k \in 1..Len(ks) :
        RouteNormalOf(ks[k].question) = RouteNormalOf(ps[i].question) }

\* the least score of a listing for the i-th query: a query of P characters
\* leaves at least P - L of them unmatched in a text of L characters, the
\* longer of the two keys 'normalized' and 'question'
LeastScore(ps, ks, i, k) ==
    LET P == Len(RouteNormalOf(ps[i].question))
        L == Max(Len(RouteNormalOf(ks[k].question)), Len(ks[k].question))
    IN  IF L >= P THEN 0 ELSE ((P - L) * 10000) \div P

\* what fuse.search can return first for the i-th Polymarket listing: nothing
\* when the loop does not search for it; a listing with the text of the query,
\* at a perfect score, when there is one; else nothing or any listing at any
\* score not under its least
FuseOutcomesFor(ps, ks, i) ==
    IF Len(RouteNormalOf(ps[i].question)) < 10 THEN {NoResult}
    ELSE IF ExactItems(ps, ks, i) # {}
    THEN [item : ExactItems(ps, ks, i), score : PerfectScores]
    ELSE {NoResult} \cup
         { r \in [item : 1..Len(ks), score : FuseScores] :
             r.score >= LeastScore(ps, ks, i, r.item) }

\* the same search returns the same: listings of one question get one result
FuseOutcomes(ps, ks) ==
    { f \in [1..Len(ps) -> {NoResult} \cup
                            [item : 1..Len(ks), score : PerfectScores \cup FuseScores]] :
        /\ \A i \in 1..Len(ps) : f[i] \in FuseOutcomesFor(ps, ks, i)
        /\ \A i, j \in 1..Len(ps) : ps[i].question = ps[j].question => f[i] = f[j] }

\* const [poly, kalshi] = await Promise.all([fetchPolymarket(), fetchKalshi()])
InitRoute ==
    /\ \E n1 \in 0..MaxRouteListings, n2 \in 0..MaxRouteListings :
          /\ n1 + n2 <= MaxRouteListings
          /\ poly \in RouteFetchedLists("Polymarket", n1)
          /\ kalshi \in RouteFetchedLists("Kalshi", n2)
    /\ fuseResults \in FuseOutcomes(poly, kalshi)
    /\ threshold = RouteDefaultThreshold
    /\ matches = <<>>
    /\ usedKalshi = {}
    /\ NoScan
    /\ cursor = <<>>
    /\ textRun = <<>>
    /\ hedgeRun = <<>>
    /\ dash = <<>>
    /\ arbs = <<>>
    /\ pc = "fetched"
    /\ allMarkets = <<>>
    /\ usedPairs = {}

\* const matches = matchMarkets(poly, kalshi), or a call with another threshold
MatchMarkets ==
    /\ pc = "fetched"
    /\ \E th \in RouteThresholds :
          LET r == matchMarkets(poly, kalshi, fuseResults, th)
          IN  /\ threshold' = th
              /\ matches' = r.matches
              /\ usedKalshi' = r.usedKalshi
    /\ pc' = "matched"
    /\ UNCHANGED <<allMarkets, usedPairs, arbs, poly, kalshi, fuseResults, scanVars, cursor, textRun, hedgeRun, dash>>

\* const arbs = findArbitrage(matches)
RouteFindArbitrage ==
    /\ pc = "matched"
    /\ arbs' = routeFindArbitrage(poly, kalshi, matches)
    /\ pc' = "done"
    /\ UNCHANGED <<allMarkets, threshold, matches, usedPairs, poly, kalshi,
                   fuseResults, usedKalshi, scanVars, cursor, textRun, hedgeRun, dash>>

NextRoute == MatchMarkets \/ RouteFindArbitrage

SpecRoute == InitRoute /\ [][NextRoute]_vars

-----------------------------------------------------------------------------
(* Properties of matchAllMarkets, checked under Spec *)

Matched == pc \in {"matched", "done"}

MatchIdx == 1..Len(matches)

IdA(i) == allMarkets[matches[i].marketA].id
IdB(i) == allMarkets[matches[i].marketB].id
PlatformA(i) == allMarkets[matches[i].marketA].platform
PlatformB(i) == allMarkets[matches[i].marketB].platform

\* C1: no listing id is the matched counterpart (marketB) of more than one
\* returned Match.  The code does not keep this: two listings of one platform
\* that both choose the same best candidate are both recorded.
C1_CounterpartOnce ==
    \A i, j \in MatchIdx : i # j => IdB(i) # IdB(j)

\* the two listings of the worked scenario, on any two platforms
IsScenario ==
    /\ Len(allMarkets) = 2
    /\ allMarkets[1].platform # allMarkets[2].platform
    /\ allMarkets[1].question = QBillJune
    /\ allMarkets[1].yes_price = 40 /\ allMarkets[1].no_price = 55
    /\ allMarkets[2].question = QPassesJune
    /\ allMarkets[2].yes_price = 50 /\ allMarkets[2].no_price = 42

ScenarioStrategy ==
    "BUY YES@" \o allMarkets[1].platform \o "($0.40) + BUY NO@"
        \o allMarkets[2].platform \o "($0.42)"

\* C2 as stated: in the worked scenario at the default threshold the scan ends
\* with the Match of A with B and one Arb of cost 0.82, spread 0.18 and the
\* strategy YES on X, NO on Y.
C2_ScenarioAsStated ==
    (pc = "done" /\ threshold = DefaultThreshold /\ IsScenario) =>
        /\ Len(matches) = 1
        /\ matches[1].marketA = 1 /\ matches[1].marketB = 2
        /\ Len(arbs) = 1
        /\ arbs[1].cost = 82 /\ arbs[1].spread = 18
        /\ arbs[1].strategy = ScenarioStrategy

\* C2 (amended): in the worked scenario at the default threshold the keyword
\* sets are {bill, pass} and {bill, passes}, which share one keyword, so no
\* Match and no Arb is returned; findArbitrage handed a Match of A with B
\* returns one Arb of cost 0.82, spread 0.18 and the strategy YES on X, NO on Y.
C2_Scenario ==
    (pc = "done" /\ threshold = DefaultThreshold /\ IsScenario) =>
        /\ getKeywords(allMarkets[1].question) = {"bill", "pass"}
        /\ getKeywords(allMarkets[2].question) = {"bill", "passes"}
        /\ matches = <<>>
        /\ arbs = <<>>
        /\ LET given == findArbitrage(allMarkets,
                          <<[marketA |-> 1, marketB |-> 2, match_score |-> 50]>>)
           IN  /\ Len(given) = 1
               /\ given[1].cost = 82 /\ given[1].spread = 18
               /\ given[1].strategy = ScenarioStrategy

C2_Witness == pc = "done" /\ threshold = DefaultThreshold /\ IsScenario

\* C3: every returned Match has a match_score with threshold <= score <= 100
C3_ScoreInRange ==
    Matched => \A i \in MatchIdx :
                  /\ matches[i].match_score \in Int
                  /\ threshold <= matches[i].match_score
                  /\ matches[i].match_score <= 100

\* a Match scoring exactly the threshold, and one scoring 100, are returned
C3_Witness ==
    /\ Matched
    /\ \E i \in MatchIdx : matches[i].match_score = threshold
    /\ \E i \in MatchIdx : matches[i].match_score = 100

\* the keywords the two listings of the i-th Match share
SharedKeywords(i) ==
    KeywordsOf(allMarkets[matches[i].marketA].question)
        \cap KeywordsOf(allMarkets[matches[i].marketB].question)

\* C4: every returned Match pairs two listings that share at least 2 keywords
C4_OverlapFloor ==
    Matched => \A i \in MatchIdx : Cardinality(SharedKeywords(i)) >= 2

\* two listings of different platforms share exactly one keyword and are not
\* matched, while another pair, sharing exactly two, is
C4_Witness ==
    /\ Matched
    /\ \E i \in MatchIdx : Cardinality(SharedKeywords(i)) = 2
    /\ \E a, b \in 1..Len(allMarkets) :
          /\ allMarkets[a].platform # allMarkets[b].platform
          /\ Cardinality(KeywordsOf(allMarkets[a].question)
                           \cap KeywordsOf(allMarkets[b].question)) = 1
          /\ \A i \in MatchIdx : {matches[i].marketA, matches[i].marketB} # {a, b}

\* C8: no two returned Match records have the same unordered pair of listing ids
C8_PairKeyUnique ==
    \A i, j \in MatchIdx : i # j => {IdA(i), IdB(i)} # {IdA(j), IdB(j)}

\* the de-duplication has rejected a candidate: two listings of one platform
\* carry the same id and choose the same best candidate, and one is recorded
C8_Witness ==
    /\ pc = "matched"
    /\ \E i \in MatchIdx : \E a2 \in 1..Len(allMarkets) :
          LET a1 == matches[i].marketA
              b  == matches[i].marketB
          IN  /\ a2 # a1
              /\ allMarkets[a2].platform = allMarkets[a1].platform
              /\ allMarkets[a2].id = allMarkets[a1].id
              /\ Cardinality(KeywordsOf(allMarkets[a2].question)) >= 2
              /\ BestCandidate(allMarkets, a2,
                               GroupOf(allMarkets, allMarkets[b].platform),
                               threshold).market = b
              /\ \A j \in MatchIdx : matches[j].marketA # a2

\* C9 as stated: no listing appears in two Match records produced by different
\* platform-pair passes
C9_OncePerListingAcrossPasses ==
    \A i, j \in MatchIdx :
        {PlatformA(i), PlatformB(i)} # {PlatformA(j), PlatformB(j)} =>
            {matches[i].marketA, matches[i].marketB}
                \cap {matches[j].marketA, matches[j].marketB} = {}

\* C9 (amended): the de-duplication keys on the pair, not on the listing:
\* usedPairs holds exactly the pair keys of the returned Match records, one key
\* per record, so only a repeated pair of ids is kept out
C9_DedupKeysOnPairs ==
    /\ usedPairs = { pairKey(IdA(i), IdB(i)) : i \in MatchIdx }
    /\ Cardinality(usedPairs) = Len(matches)

\* three platforms: one listing is matched against the second platform and
\* again against the third
C9_Witness ==
    /\ pc = "matched"
    /\ Len(PlatformsOf(allMarkets)) >= 3
    /\ \E i, j \in MatchIdx :
          /\ matches[i].marketA = matches[j].marketA
          /\ PlatformB(i) # PlatformB(j)
          /\ Cardinality(usedPairs) = Len(matches)

-----------------------------------------------------------------------------
(* Properties of findArbitrage, checked under SpecArb *)

\* the two hedge spreads of the i-th Match, from the prices of its listings
MatchSpread1(i) ==
    100 - (allMarkets[matches[i].marketA].yes_price
             + allMarkets[matches[i].marketB].no_price)
MatchSpread2(i) ==
    100 - (allMarkets[matches[i].marketA].no_price
             + allMarkets[matches[i].marketB].yes_price)

\* the Match records with a hedge in profit
Profitable == { i \in MatchIdx : MatchSpread1(i) > 0 \/ MatchSpread2(i) > 0 }

\* the k-th Arb carries the prices of the i-th Match
ArbIsOf(k, i) ==
    /\ arbs[k].yesA = allMarkets[matches[i].marketA].yes_price
    /\ arbs[k].noA  = allMarkets[matches[i].marketA].no_price
    /\ arbs[k].yesB = allMarkets[matches[i].marketB].yes_price
    /\ arbs[k].noB  = allMarkets[matches[i].marketB].no_price

\* what findArbitrage of route.ts returns for the same Match records, which pair
\* the i-th Polymarket listing with the i-th Kalshi listing
RouteArbsHere ==
    LET k == Len(matches)
    IN  routeFindArbitrage(SubSeq(allMarkets, 1, k), SubSeq(allMarkets, k + 1, 2 * k),
                           [i \in 1..k |-> [polymarket |-> i, kalshi |-> i,
                                            match_score |-> matches[i].match_score]])

\* the k-th Arb of route.ts carries the prices of the i-th Match
RouteArbIsOf(r, k, i) ==
    /\ r[k].poly_yes   = allMarkets[matches[i].marketA].yes_price
    /\ r[k].poly_no    = allMarkets[matches[i].marketA].no_price
    /\ r[k].kalshi_yes = allMarkets[matches[i].marketB].yes_price
    /\ r[k].kalshi_no  = allMarkets[matches[i].marketB].no_price

\* C5: the Arbs returned are one for each Match with spreadHedge1 > 0 or
\* spreadHedge2 > 0 and none for any other Match, and each has spread > 0;
\* the same holds of findArbitrage of route.ts
C5_ArbIffProfitable ==
    pc = "done" =>
        /\ \E f \in [1..Len(arbs) -> Profitable] :
              /\ \A k1, k2 \in 1..Len(arbs) : k1 # k2 => f[k1] # f[k2]
              /\ \A i \in Profitable : \E k \in 1..Len(arbs) : f[k] = i
              /\ \A k \in 1..Len(arbs) : ArbIsOf(k, f[k])
        /\ \A k \in 1..Len(arbs) : arbs[k].spread > 0
        /\ LET r == RouteArbsHere
           IN  /\ \E f \in [1..Len(r) -> Profitable] :
                     /\ \A k1, k2 \in 1..Len(r) : k1 # k2 => f[k1] # f[k2]
                     /\ \A i \in Profitable : \E k \in 1..Len(r) : f[k] = i
                     /\ \A k \in 1..Len(r) : RouteArbIsOf(r, k, f[k])
               /\ \A k \in 1..Len(r) : r[k].spread > 0

\* one Match is in profit and gets its Arb, another has a hedge at spread 0 and
\* none above and gets none
C5_Witness ==
    /\ pc = "done"
    /\ Len(arbs) >= 1
    /\ \E i \in MatchIdx :
          /\ i \notin Profitable
          /\ MatchSpread1(i) = 0 \/ MatchSpread2(i) = 0

\* the two hedge spreads of the k-th Arb, from the prices it records
ArbSpread1(k) == 100 - (arbs[k].yesA + arbs[k].noB)
ArbSpread2(k) == 100 - (arbs[k].noA + arbs[k].yesB)

Hedge1Text(k) ==
    "BUY YES@" \o arbs[k].platformA \o "($" \o toFixed2(arbs[k].yesA)
        \o ") + BUY NO@" \o arbs[k].platformB \o "($" \o toFixed2(arbs[k].noB) \o ")"

Hedge2Text(k) ==
    "BUY NO@" \o arbs[k].platformA \o "($" \o toFixed2(arbs[k].noA)
        \o ") + BUY YES@" \o arbs[k].platformB \o "($" \o toFixed2(arbs[k].yesB) \o ")"

\* the same of an Arb x of route.ts
RouteSpread1(x) == 100 - (x.poly_yes + x.kalshi_no)
RouteSpread2(x) == 100 - (x.poly_no + x.kalshi_yes)

RouteHedge1Text(x) ==
    "BUY YES@Poly($" \o toFixed2(x.poly_yes) \o ") + BUY NO@Kalshi($"
        \o toFixed2(x.kalshi_no) \o ")"

RouteHedge2Text(x) ==
    "BUY NO@Poly($" \o toFixed2(x.poly_no) \o ") + BUY YES@Kalshi($"
        \o toFixed2(x.kalshi_yes) \o ")"

\* C6: every Arb records the larger hedge spread, and the cost and strategy of
\* hedge 1 exactly when spreadHedge1 >= spreadHedge2, else those of hedge 2;
\* its spread is 1 - its cost; the same holds of findArbitrage of route.ts
C6_BetterHedgeRecorded ==
    pc = "done" =>
        /\ \A k \in 1..Len(arbs) :
              /\ arbs[k].spread >= ArbSpread1(k)
              /\ arbs[k].spread >= ArbSpread2(k)
              /\ arbs[k].spread \in {ArbSpread1(k), ArbSpread2(k)}
              /\ ArbSpread1(k) >= ArbSpread2(k) =>
                    /\ arbs[k].cost = arbs[k].yesA + arbs[k].noB
                    /\ arbs[k].strategy = Hedge1Text(k)
              /\ ArbSpread1(k) < ArbSpread2(k) =>
                    /\ arbs[k].cost = arbs[k].noA + arbs[k].yesB
                    /\ arbs[k].strategy = Hedge2Text(k)
              /\ arbs[k].spread = 100 - arbs[k].cost
        /\ LET r == RouteArbsHere
           IN  \A k \in 1..Len(r) :
                  /\ r[k].spread >= RouteSpread1(r[k])
                  /\ r[k].spread >= RouteSpread2(r[k])
                  /\ r[k].spread \in {RouteSpread1(r[k]), RouteSpread2(r[k])}
                  /\ RouteSpread1(r[k]) >= RouteSpread2(r[k]) =>
                        /\ r[k].cost = r[k].poly_yes + r[k].kalshi_no
                        /\ r[k].strategy = RouteHedge1Text(r[k])
                  /\ RouteSpread1(r[k]) < RouteSpread2(r[k]) =>
                        /\ r[k].cost = r[k].poly_no + r[k].kalshi_yes
                        /\ r[k].strategy = RouteHedge2Text(r[k])
                  /\ r[k].spread = 100 - r[k].cost

\* Arbs are returned for a tie of the two hedges, for hedge 1 ahead and for
\* hedge 2 ahead
C6_Witness ==
    /\ pc = "done"
    /\ \E k \in 1..Len(arbs) : ArbSpread1(k) = ArbSpread2(k)
    /\ \E k \in 1..Len(arbs) : ArbSpread1(k) > ArbSpread2(k)
    /\ \E k \in 1..Len(arbs) : ArbSpread1(k) < ArbSpread2(k)

\* C7: in the returned list an Arb never has a smaller spread than a later one;
\* the same holds of findArbitrage of route.ts
C7_SortedBySpread ==
    pc = "done" =>
        /\ \A k1, k2 \in 1..Len(arbs) :
              k1 < k2 => arbs[k1].spread >= arbs[k2].spread
        /\ LET r == RouteArbsHere
           IN  \A k1, k2 \in 1..Len(r) : k1 < k2 => r[k1].spread >= r[k2].spread

\* the Match records arrive with ascending spreads and three Arbs, not all of
\* one spread, are returned
C7_Witness ==
    /\ pc = "done"
    /\ Len(arbs) = 3
    /\ arbs[1].spread > arbs[3].spread
    /\ Max(MatchSpread1(1), MatchSpread2(1)) < Max(MatchSpread1(2), MatchSpread2(2))
    /\ Max(MatchSpread1(2), MatchSpread2(2)) < Max(MatchSpread1(3), MatchSpread2(3))

-----------------------------------------------------------------------------
(* Properties of matchMarkets, checked under SpecRoute *)

\* C10: no Polymarket listing appears in more than one returned Match, the
\* matches of the fuzzy pass and of the keyword pass counted together.  The
\* code does not keep this: the keyword pass runs over every Polymarket
\* listing again, also over those the fuzzy pass has matched.
C10_PolymarketOnce ==
    \A i, j \in MatchIdx : i # j => matches[i].polymarket # matches[j].polymarket

\* the keyword score of the p-th Polymarket listing against the k-th Kalshi one
RouteKeywordScore(p, k) ==
    LET pWords == RouteWords(poly[p].question)
        kWords == RouteWords(kalshi[k].question)
    IN  RoundPercent(Overlap(pWords, kWords),
                     Max(Cardinality(pWords), Cardinality(kWords)))

\* C11: the fuzzy pass and the keyword pass share usedKalshi: it holds the ids
\* of the Kalshi listings of the returned Matches, and no Kalshi listing id is
\* the counterpart of more than one returned Match
C11_KalshiOnce ==
    Matched =>
        /\ usedKalshi = { kalshi[matches[i].kalshi].id : i \in MatchIdx }
        /\ \A i, j \in MatchIdx :
              i # j => kalshi[matches[i].kalshi].id # kalshi[matches[j].kalshi].id

\* a Kalshi listing has its Match, and a Polymarket listing that is in no Match
\* would have claimed it in the keyword pass had its id not been used
C11_Witness ==
    /\ pc = "matched"
    /\ \E i \in MatchIdx : \E p \in 1..Len(poly) :
          /\ \A j \in MatchIdx : matches[j].polymarket # p
          /\ Cardinality(RouteWords(poly[p].question)) >= 2
          /\ RouteKeywordScore(p, matches[i].kalshi) >= threshold
          /\ kalshi[matches[i].kalshi].id \in usedKalshi

-----------------------------------------------------------------------------
(* Properties of matchAllMarkets on degenerate listings, checked under SpecEdge *)

\* normalize(m.question) for the question texts of SpecEdge, each computed once
EdgeNormalTable == [q \in EdgeQuestions |-> normalize(q)]

\* the listings that appear in a returned Match
MatchedListings == UNION { {matches[i].marketA, matches[i].marketB} : i \in MatchIdx }

\* C12: every listing in a returned Match has at least 2 keywords, and a
\* listing whose question normalizes to the empty string is in no Match, on
\* either side
C12_DegenerateNeverMatched ==
    Matched => \A m \in MatchedListings :
                  /\ Cardinality(KeywordsOf(allMarkets[m].question)) >= 2
                  /\ EdgeNormalTable[allMarkets[m].question] # <<>>

\* a Match is returned, and a third listing, whose question is blank and
\* normalizes to the empty string, is in none
C12_Witness ==
    /\ pc = "matched"
    /\ matches # <<>>
    /\ \E a \in 1..Len(allMarkets) :
          /\ allMarkets[a].question = QBlank
          /\ EdgeNormalTable[QBlank] = <<>>
          /\ a \notin MatchedListings

\* a listing without question text, or with a price that is no number
Malformed(m) == m.question = QEmpty \/ IsNaN(m.yes_price) \/ IsNaN(m.no_price)

\* C13: a malformed listing (question text missing, or yes_price or no_price
\* NaN) is excluded from matching: it is in no returned Match, and no returned
\* Arb carries one's prices or a spread that is no number.  The code does not
\* keep this: the matcher never reads prices, and Math.max of NaN and a
\* positive spread is NaN.
C13_MalformedExcluded ==
    /\ Matched => \A m \in MatchedListings : ~Malformed(allMarkets[m])
    /\ pc = "done" => \A k \in 1..Len(arbs) :
          /\ ~IsNaN(arbs[k].spread)
          /\ ~IsNaN(arbs[k].yesA) /\ ~IsNaN(arbs[k].noA)
          /\ ~IsNaN(arbs[k].yesB) /\ ~IsNaN(arbs[k].noB)

-----------------------------------------------------------------------------
(* Empty inputs, checked under Spec, where every platform returns from no    *)
(* listing to MaxMarkets listings                                            *)

\* the platforms that contributed a listing
PlatformsPresent == { allMarkets[k].platform : k \in 1..Len(allMarkets) }

\* C14: whichever platforms contribute no listings, the Matches returned are
\* between listings of platforms that have listings, and there is none unless
\* two platforms have listings; with no listing at all matchAllMarkets and
\* findArbitrage can both be taken, and the Match list and the Arb list are
\* empty
C14_EmptyInputsTolerated ==
    /\ allMarkets = <<>> /\ pc = "fetched" => ENABLED MatchAllMarkets
    /\ allMarkets = <<>> /\ pc = "matched" => ENABLED FindArbitrage
    /\ Matched =>
          /\ \A i \in MatchIdx :
                /\ matches[i].marketA \in 1..Len(allMarkets)
                /\ matches[i].marketB \in 1..Len(allMarkets)
                /\ {PlatformA(i), PlatformB(i)} \subseteq PlatformsPresent
          /\ Cardinality(PlatformsPresent) < 2 => matches = <<>>
          /\ allMarkets = <<>> => matches = <<>>
    /\ pc = "done" /\ allMarkets = <<>> => arbs = <<>>
    /\ pc = "done" /\ matches = <<>> => arbs = <<>>

\* Kalshi and Metaculus contribute nothing; a Polymarket and a Manifold listing
\* are matched and evaluated
C14_Witness ==
    /\ pc = "done"
    /\ PlatformsPresent = {"Polymarket", "Manifold"}
    /\ matches # <<>>
    /\ arbs # <<>>

-----------------------------------------------------------------------------
(* Properties of the scan handler, checked under SpecScan *)

\* the source of the i-th platform failed: it rejected or its timer fired first
SourceFailed(i) == sources[i].late \/ sources[i].settles = "rejects"

\* the listings of the sources that returned in time, in the order of PLATFORMS
ListingsInTime ==
    LET part(i) == IF SourceFailed(i) THEN <<>> ELSE sources[i].list
    IN  part(1) \o part(2) \o part(3) \o part(4)

\* platformCounts of the response for the i-th platform
CountOf(i) ==
    CASE i = 1 -> response.platformCounts.Polymarket
      [] i = 2 -> response.platformCounts.Kalshi
      [] i = 3 -> response.platformCounts.Manifold
      [] i = 4 -> response.platformCounts.Metaculus

\* C15: whichever sources reject or run past their timers, the scan goes on
\* to its response; there each such platform counts 0 listings and has none
\* among the listings scanned, and the listings of the other platforms are
\* matched and evaluated as matchAllMarkets and findArbitrage do on them alone
C15_FailedSourcesTolerated ==
    /\ (pc = "fetching" /\ \A i \in 1..4 : results[i] # Pending) => ENABLED Gather
    /\ pc = "done" => ENABLED Respond
    /\ pc = "responded" =>
          /\ \A i \in 1..4 : SourceFailed(i) =>
                /\ CountOf(i) = 0
                /\ \A k \in 1..Len(allMarkets) : allMarkets[k].platform # PLATFORMS[i]
          /\ \A i \in 1..4 : ~SourceFailed(i) => CountOf(i) = Len(sources[i].list)
          /\ allMarkets = ListingsInTime
          /\ matches = matchAllMarkets(ListingsInTime, threshold).matches
          /\ response.opportunities = findArbitrage(ListingsInTime, matches)

\* one source runs past its timer with a listing in hand, another rejects, and
\* the listings of the two others are matched and yield an Arb
C15_Witness ==
    /\ pc = "responded"
    /\ \E i, j \in 1..4 :
          /\ sources[i].late /\ sources[i].settles = "returns" /\ sources[i].list # <<>>
          /\ sources[j].settles = "rejects" /\ ~sources[j].late
    /\ response.matchCount >= 1
    /\ response.opportunities # <<>>

\* C16: the response carries the per-platform counts, the total count, the
\* match count and the ranked Arb list; the total is the sum of the
\* per-platform counts and counts every fetched listing, those the matcher
\* skips for their text included; the match count is the number of Match
\* records and is at least the number of Arbs
C16_ResponseCounts ==
    pc = "responded" =>
        /\ response.totalMarkets = CountOf(1) + CountOf(2) + CountOf(3) + CountOf(4)
        /\ response.totalMarkets = Len(ListingsInTime)
        /\ \A i \in 1..4 :
              CountOf(i) = Cardinality({ k \in 1..Len(ListingsInTime) :
                                           ListingsInTime[k].platform = PLATFORMS[i] })
        /\ response.matchCount = Len(matches)
        /\ response.matchCount >= Len(response.opportunities)
        /\ response.opportunities = arbs
        /\ \A k1, k2 \in 1..Len(response.opportunities) :
              k1 < k2 => response.opportunities[k1].spread
                             >= response.opportunities[k2].spread

\* a listing with a blank question is counted though it is in no Match, and
\* the one Match of the scan is not in profit: match count 1, no Arb
C16_Witness ==
    /\ pc = "responded"
    /\ \E k \in 1..Len(allMarkets) :
          allMarkets[k].question = QBlank /\ k \notin MatchedListings
    /\ response.totalMarkets = 3
    /\ response.matchCount = 1
    /\ response.opportunities = <<>>

-----------------------------------------------------------------------------
(* Scenarios and algebraic properties of matchAllMarkets, checked under Spec *)

\* the keywords the listings at positions a and b share
SharedBy(a, b) ==
    KeywordsOf(allMarkets[a].question) \cap KeywordsOf(allMarkets[b].question)

\* overlap over the smaller keyword set, in percent
PairScore(a, b) ==
    RoundPercent(Cardinality(SharedBy(a, b)),
                 Min(Cardinality(KeywordsOf(allMarkets[a].question)),
                     Cardinality(KeywordsOf(allMarkets[b].question))))

\* the cross-platform pairs of listings that satisfy the overlap floor and the
\* threshold
EligiblePairs ==
    { pr \in (1..Len(allMarkets)) \X (1..Len(allMarkets)) :
        /\ pr[1] < pr[2]
        /\ allMarkets[pr[1]].platform # allMarkets[pr[2]].platform
        /\ Cardinality(SharedBy(pr[1], pr[2])) >= 2
        /\ PairScore(pr[1], pr[2]) >= threshold }

\* C17: with listings of three platforms or more and exactly one eligible
\* cross-platform pair, matchAllMarkets returns exactly one Match, of that
\* pair, and no listing of another platform is in a Match
C17_OneMatchOfThree ==
    (Matched /\ Cardinality(PlatformsPresent) >= 3 /\ Cardinality(EligiblePairs) = 1) =>
        /\ Len(matches) = 1
        /\ <<matches[1].marketA, matches[1].marketB>> \in EligiblePairs
        /\ \A k \in 1..Len(allMarkets) :
              allMarkets[k].platform \notin {PlatformA(1), PlatformB(1)} =>
                  k \notin MatchedListings

\* three platforms, one eligible pair, and a listing of the third platform that
\* shares a keyword with one of the pair, yet one Match
C17_Witness ==
    /\ pc = "matched"
    /\ Cardinality(PlatformsPresent) = 3
    /\ Cardinality(EligiblePairs) = 1
    /\ Len(matches) = 1
    /\ \E k \in 1..Len(allMarkets) :
          /\ allMarkets[k].platform \notin {PlatformA(1), PlatformB(1)}
          /\ SharedBy(k, matches[1].marketA) # {}

-----------------------------------------------------------------------------
(* Order independence of matchAllMarkets, checked under SpecOrder *)

\* the Match records of the sequential run
SequentialMatches == matchAllMarkets(allMarkets, threshold).matches

-----------------------------------------------------------------------------
(* Properties of normalize and getKeywords, checked under SpecText *)

\* C19: normalize of what normalize returned is what normalize returned, for
\* normalize of part_000 and for normalize of route.ts
C19_NormalizeIdempotent ==
    /\ pc = "twice" => textRun.twice = textRun.once
    /\ pc = "routeTwice" => textRun.routeTwice = textRun.routeOnce

\* "Be fore": normalize has lower-cased, removed the stop word "be" and
\* trimmed the space it left, and kept "fore"
C19_Witness ==
    /\ pc = "twice"
    /\ textRun.input = <<"B", "e", " ", "f", "o", "r", "e">>
    /\ textRun.once = <<"f", "o", "r", "e">>
    /\ textRun.twice = <<"f", "o", "r", "e">>

\* the strings of digits a text of the model can hold between two spaces
DigitStrings ==
    { Join(d) : d \in UNION { [1..n -> {"1", "2"}] : n \in 1..(2 * (MaxPieces + 1)) } }

\* C20: every token getKeywords returns is longer than 3 characters, is not
\* made of digits only and is not in STOP_WORDS
C20_KeywordTokens ==
    pc = "keywords" => \A k \in textRun.keywords :
                          /\ Len(k) > 3
                          /\ k \notin DigitStrings
                          /\ k \notin STOP_WORDS

\* "1212 fore": the token of digits is dropped and the word is kept
C20_Witness ==
    /\ pc = "keywords"
    /\ textRun.input = <<"1", "2", "1", "2", " ", "f", "o", "r", "e">>
    /\ textRun.keywords = {"fore"}

-----------------------------------------------------------------------------
(* Monotonicity of the hedge spreads, checked under SpecHedge *)

\* the raised price is one of hedge 1, or of hedge 2
RaisesHedge1 == hedgeRun.field \in {"yesA", "noB"}
RaisesHedge2 == hedgeRun.field \in {"noA", "yesB"}

\* C21 as stated: raising A.yes_price or B.no_price strictly decreases
\* spreadHedge1, raising A.no_price or B.yes_price strictly decreases
\* spreadHedge2
C21_StrictlyDecreasing ==
    pc = "raised" =>
        /\ RaisesHedge1 => hedgeRun.spread1[2] < hedgeRun.spread1[1]
        /\ RaisesHedge2 => hedgeRun.spread2[2] < hedgeRun.spread2[1]

\* prices on a grid coarse enough for every sum of two to be a number
OnGrid(pr) == \A f \in PriceFields : pr[f] % 2 = 0

\* C21 (amended): raising a price of a hedge never increases the spread of that
\* hedge and leaves the spread of the other hedge as it was; it strictly
\* decreases the spread when the prices lie on a grid whose sums are not rounded
C21_Monotone ==
    pc = "raised" =>
        /\ RaisesHedge1 =>
              /\ hedgeRun.spread1[2] <= hedgeRun.spread1[1]
              /\ hedgeRun.spread2[2] = hedgeRun.spread2[1]
        /\ RaisesHedge2 =>
              /\ hedgeRun.spread2[2] <= hedgeRun.spread2[1]
              /\ hedgeRun.spread1[2] = hedgeRun.spread1[1]
        /\ (OnGrid(hedgeRun.base) /\ OnGrid(hedgeRun.raised)) =>
              /\ RaisesHedge1 => hedgeRun.spread1[2] < hedgeRun.spread1[1]
              /\ RaisesHedge2 => hedgeRun.spread2[2] < hedgeRun.spread2[1]

\* A.yes_price is raised to the next number and the sum with B.no_price rounds
\* to what it was: spread1 is unchanged
C21_Witness ==
    /\ pc = "raised"
    /\ hedgeRun.field = "yesA"
    /\ hedgeRun.raised.yesA = hedgeRun.base.yesA + 1
    /\ hedgeRun.spread1[2] = hedgeRun.spread1[1]

-----------------------------------------------------------------------------
(* The records matchAllMarkets returns *)

\* C22: the two listings of every Match that matchAllMarkets returns are of
\* different platforms
C22_CrossPlatformOnly ==
    Matched => \A i \in MatchIdx : PlatformA(i) # PlatformB(i)

\* a Match is returned, and two listings of one platform that share two
\* keywords and reach the threshold are in no Match together
C22_Witness ==
    /\ Matched
    /\ matches # <<>>
    /\ \E a, b \in 1..Len(allMarkets) :
          /\ a < b
          /\ allMarkets[a].platform = allMarkets[b].platform
          /\ Cardinality(SharedBy(a, b)) >= 2
          /\ PairScore(a, b) >= threshold
          /\ a \in MatchedListings

\* the number of keywords of the listing at position a
KeywordCount(a) == Cardinality(KeywordsOf(allMarkets[a].question))

\* s is the integer Math.round gives for 100 * n / d: s <= 100 n / d + 1/2 < s + 1
IsRounded(s, n, d) == 2 * s * d <= 200 * n + d /\ 200 * n + d < 2 * s * d + 2 * d

\* C23: the match_score of every Match is the number of keywords its two
\* listings share, over the size of the smaller of their keyword sets, times
\* 100 and rounded to the nearest integer
C23_ScoreFormula ==
    Matched =>
        \A i \in MatchIdx :
            IsRounded(matches[i].match_score,
                      Cardinality(SharedBy(matches[i].marketA, matches[i].marketB)),
                      Min(KeywordCount(matches[i].marketA), KeywordCount(matches[i].marketB)))

\* a Match of a listing of three keywords with one of four that shares two of
\* them: two thirds, which rounds up to 67
C23_Witness ==
    /\ Matched
    /\ \E i \in MatchIdx :
          /\ Cardinality(SharedBy(matches[i].marketA, matches[i].marketB)) = 2
          /\ Min(KeywordCount(matches[i].marketA), KeywordCount(matches[i].marketB)) = 3
          /\ matches[i].match_score = 67

\* the listings of the platform of b that meet the overlap floor and the
\* threshold against the listing a
CandidatesFor(a, b) ==
    { c \in 1..Len(allMarkets) :
        /\ allMarkets[c].platform = allMarkets[b].platform
        /\ KeywordCount(c) >= 2
        /\ Cardinality(SharedBy(a, c)) >= 2
        /\ PairScore(a, c) >= threshold }

\* C24: the listing b chosen for a listing a is a candidate, no candidate of
\* the platform of b scores higher against a, and every candidate with the
\* same score comes after b in the order of the listings
C24_BestAndEarliest ==
    Matched =>
        \A i \in MatchIdx :
            LET a     == matches[i].marketA
                b     == matches[i].marketB
                cands == CandidatesFor(a, b)
                best  == PairScore(a, b)
            IN  /\ b \in cands
                /\ matches[i].match_score = best
                /\ \A c \in cands :
                      /\ PairScore(a, c) <= best
                      /\ PairScore(a, c) = best => b <= c

\* a listing with two candidates of one platform, of which the later one scores
\* higher and is chosen
C24_HigherLaterChosen ==
    /\ Matched
    /\ \E i \in MatchIdx : \E c \in CandidatesFor(matches[i].marketA, matches[i].marketB) :
          /\ c < matches[i].marketB
          /\ PairScore(matches[i].marketA, c) < matches[i].match_score

\* a listing with two candidates of one platform that score the same: the
\* earlier one is chosen
C24_Witness ==
    /\ Matched
    /\ \E i \in MatchIdx : \E c \in CandidatesFor(matches[i].marketA, matches[i].marketB) :
          /\ c > matches[i].marketB
          /\ PairScore(matches[i].marketA, c) = matches[i].match_score

-----------------------------------------------------------------------------
(* The order of Arbs of one spread, checked under SpecArb *)

\* the Arbs in the order the loop over the Match records pushes them
Pushed == CollectArbs(allMarkets, matches)

\* the elements of s with the spread v, in their order in s
OfSpread(s, v) == SelectSeq(s, LAMBDA x : x.spread = v)

\* C25: the Arbs of any one spread are in the returned list in the order in
\* which their Match records were processed
C25_StableAmongEqualSpreads ==
    pc = "done" =>
        \A k \in 1..Len(arbs) :
            OfSpread(arbs, arbs[k].spread) = OfSpread(Pushed, arbs[k].spread)

\* two different Arbs of one spread are pushed first and an Arb of a greater
\* spread last: the sort moves the last to the front and the two keep their order
C25_Witness ==
    /\ pc = "done"
    /\ Len(Pushed) = 3
    /\ Pushed[1].spread = Pushed[2].spread
    /\ Pushed[1] # Pushed[2]
    /\ Pushed[3].spread > Pushed[1].spread
    /\ arbs = <<Pushed[3], Pushed[1], Pushed[2]>>

-----------------------------------------------------------------------------
(* What the de-duplication lets through when ids are distinct, under Spec *)

\* no two listings carry the same id
DistinctIds ==
    \A a, b \in 1..Len(allMarkets) : a # b => allMarkets[a].id # allMarkets[b].id

\* the listings of the platform p that meet the overlap floor and the threshold
\* against the listing a
CandidatesOn(a, p) ==
    { c \in 1..Len(allMarkets) :
        /\ allMarkets[c].platform = p
        /\ KeywordCount(c) >= 2
        /\ Cardinality(SharedBy(a, c)) >= 2
        /\ PairScore(a, c) >= threshold }

\* a listing a and a platform after its own that has a candidate for a
Served ==
    LET order == PlatformsOf(allMarkets)
    IN  UNION { { <<a, order[ij[2]]>> :
                    a \in { c \in 1..Len(allMarkets) :
                              /\ allMarkets[c].platform = order[ij[1]]
                              /\ CandidatesOn(c, order[ij[2]]) # {} } } :
                ij \in { x \in (1..Len(order)) \X (1..Len(order)) : x[1] < x[2] } }

\* C30: with all ids distinct the result has one Match, and one only, for
\* every listing a and later platform with a candidate for a, and no other
\* Match: no candidate is rejected as a duplicate
C30_NothingRejected ==
    (Matched /\ DistinctIds) =>
        LET served == Served
        IN  /\ \A ap \in served :
                  Cardinality({ i \in MatchIdx : /\ matches[i].marketA = ap[1]
                                                 /\ PlatformB(i) = ap[2] }) = 1
            /\ \A i \in MatchIdx : <<matches[i].marketA, PlatformB(i)>> \in served
            /\ Len(matches) = Cardinality(served)

\* ids are distinct and one listing is matched against two later platforms,
\* while a listing of the last platform has no later platform to be matched on
C30_Witness ==
    /\ Matched
    /\ DistinctIds
    /\ \E i, j \in MatchIdx :
          /\ i # j
          /\ matches[i].marketA = matches[j].marketA
          /\ PlatformB(i) # PlatformB(j)
    /\ Len(matches) = 3

-----------------------------------------------------------------------------
(* The dashboard Home of part_001 (page.tsx is the same component without   *)
(* the preferences): the state the component keeps, the scan requests in    *)
(* flight and localStorage, all in the record dash.  A handler and the      *)
(* effects its state updates set off are one step.                          *)

\* the matcher and the evaluator are not running
IdleMatcher ==
    /\ allMarkets = <<>>
    /\ threshold = DefaultThreshold
    /\ matches = <<>>
    /\ usedPairs = {}
    /\ arbs = <<>>
    /\ poly = <<>>
    /\ kalshi = <<>>
    /\ fuseResults = <<>>
    /\ usedKalshi = {}
    /\ NoScan
    /\ cursor = <<>>
    /\ textRun = <<>>
    /\ hedgeRun = <<>>

\* what no step of the dashboard changes
dashFrame == <<allMarkets, threshold, matches, usedPairs, arbs, pc, poly, kalshi,
               fuseResults, usedKalshi, scanVars, cursor, textRun, hedgeRun>>

\* useState(60) and setCountdown(60)
CountdownStart == 60

\* 'Failed to fetch scan results'
FailedMessage == "Failed to fetch scan results"

\* the most scan requests in flight at a time
MaxInFlight == 2

\* the listings the scans of the model fetch: a Polymarket listing that matches
\* a Kalshi and a Manifold listing, which match each other
DashPoly     == EdgeMarket("Polymarket", 1, QSenateVote, <<40, 55>>)
DashKalshi   == EdgeMarket("Kalshi", 1, QBillJune, <<50, 42>>)
DashManifold == EdgeMarket("Manifold", 1, QBillJune, <<50, 42>>)

DashScans == { <<>>, <<DashPoly, DashKalshi>>, <<DashPoly, DashKalshi, DashManifold>> }

\* json.opportunities of the response to a scan that fetched ms
OpportunitiesOf(ms) == findArbitrage(ms, matchAllMarkets(ms, DefaultThreshold).matches)

\* the opportunities lists a scan of the model can answer with
DashResults == { OpportunitiesOf(ms) : ms \in DashScans }

\* new Set(prev) with the question deleted if present, added (last) otherwise;
\* a Set is kept as the sequence of its elements in insertion order
Toggled(watchlist, question) ==
    IF \E k \in 1..Len(watchlist) : watchlist[k] = question
    THEN SelectSeq(watchlist, LAMBDA q : q # question)
    ELSE Append(watchlist, question)

\* JSON.stringify of a boolean
StringifyBool(b) == IF b THEN "true" ELSE "false"

\* the first lines of scan(): setLoading(true); setError(''); fetch('/api/scan')
StartScan(d) == [d EXCEPT !.loading = TRUE, !.error = "", !.inflight = @ + 1]

\* FailScan that also drops the displayed result
FailScanDroppingData(d) ==
    [d EXCEPT !.error = FailedMessage, !.data = <<>>, !.loading = FALSE,
              !.countdown = CountdownStart, !.inflight = @ - 1]

\* the rest of scan() when fetch or res.json() rejects
FailScan(d) ==
    [d EXCEPT !.error = FailedMessage, !.loading = FALSE,
              !.countdown = CountdownStart, !.inflight = @ - 1]

\* the rest of scan() when the response arrives: setData(json)
FinishScan(d, r) ==
    [d EXCEPT !.data = <<r>>, !.loading = FALSE,
              !.countdown = CountdownStart, !.inflight = @ - 1]

\* the page after its mount effects, with nothing saved: the defaults of
\* useState, the preferences persisted as they are, the request of the mount
\* effect in flight
InitDash ==
    /\ dash = [loading |-> TRUE, error |-> "", data |-> <<>>,
               countdown |-> CountdownStart, autoRefresh |-> TRUE,
               textSize |-> "medium", watchlist |-> <<>>, inflight |-> 1,
               ls |-> [size |-> "medium", watchlist |-> <<>>, autoRefresh |-> "true"],
               event |-> "mount", row |-> 0]
    /\ pc = "dashboard"
    /\ IdleMatcher

\* onClick={scan} of the Refresh button, which is disabled while loading
ClickRefresh ==
    /\ pc = "dashboard"
    /\ ~dash.loading
    /\ dash.inflight < MaxInFlight
    /\ dash' = [StartScan(dash) EXCEPT !.event = "click"]
    /\ UNCHANGED dashFrame

\* one tick of the interval, which exists while autoRefresh is on:
\* setCountdown(c => { if (c <= 1) { scan(); return 60; } return c - 1; })
TickCountdown ==
    /\ pc = "dashboard"
    /\ dash.autoRefresh
    /\ IF dash.countdown <= 1
       THEN /\ dash.inflight < MaxInFlight
            /\ dash' = [StartScan(dash) EXCEPT !.countdown = CountdownStart,
                                               !.event = "tickScan"]
       ELSE dash' = [dash EXCEPT !.countdown = @ - 1, !.event = "tick"]
    /\ UNCHANGED dashFrame

\* a request in flight is answered, or fails, and scan() runs to its end
CompleteScan ==
    /\ pc = "dashboard"
    /\ dash.inflight > 0
    /\ \/ \E r \in DashResults : dash' = [FinishScan(dash, r) EXCEPT !.event = "ok"]
       \/ dash' = [FailScan(dash) EXCEPT !.event = "fail"]
    /\ UNCHANGED dashFrame

\* the star of the k-th row: toggleWatchlist(a.question), and the persist
\* effect of the watchlist
ToggleWatchlist ==
    /\ pc = "dashboard"
    /\ dash.data # <<>>
    /\ \E k \in 1..Len(dash.data[1]) :
          LET next == Toggled(dash.watchlist, dash.data[1][k].question)
          IN  dash' = [dash EXCEPT !.watchlist = next, !.ls.watchlist = next,
                                   !.event = "star", !.row = k]
    /\ UNCHANGED dashFrame

\* the auto-refresh switch: setAutoRefresh(!checked), and the persist effect
ToggleAutoRefresh ==
    /\ pc = "dashboard"
    /\ dash' = [dash EXCEPT !.autoRefresh = ~@,
                            !.ls.autoRefresh = StringifyBool(~dash.autoRefresh),
                            !.event = "auto"]
    /\ UNCHANGED dashFrame

NextDash ==
    \/ ClickRefresh
    \/ TickCountdown
    \/ CompleteScan
    \/ ToggleWatchlist
    \/ ToggleAutoRefresh

SpecDash == InitDash /\ [][NextDash]_vars

-----------------------------------------------------------------------------
(* Properties of the dashboard, checked under SpecDash *)

\* C26: at most one scan request is in flight, and loading is true exactly
\* while one is.  The code does not keep this: the interval calls scan() when
\* the countdown runs out without looking at loading.
C26_OneScanAtATime ==
    /\ dash.inflight <= 1
    /\ dash.loading <=> dash.inflight = 1

\* the watchlist d.watchlist has the k-th opportunity of d starred
StarredIn(d, k) == \E i \in 1..Len(d.watchlist) : d.watchlist[i] = d.data[1][k].question

\* C27: a click on the star of one row changes the starred status of that row
\* and of no other row.  The code does not keep this: the watchlist holds
\* question excerpts, and two rows can show the same excerpt.
C27_OnlyThatStar ==
    [][dash'.event = "star" =>
          /\ StarredIn(dash', dash'.row) # StarredIn(dash, dash'.row)
          /\ \A j \in 1..Len(dash.data[1]) :
                j # dash'.row => (StarredIn(dash', j) <=> StarredIn(dash, j))]_vars

\* C29: a scan that fails sets the error message, ends loading, resets the
\* countdown to 60 and leaves the displayed result as it was; a scan that
\* starts clears the error message
C29_FailureKeepsData ==
    [][/\ dash'.event = "fail" =>
            /\ dash'.error = FailedMessage
            /\ ~dash'.loading
            /\ dash'.countdown = CountdownStart
            /\ dash'.data = dash.data
       /\ dash'.event \in {"click", "tickScan"} => dash'.error = ""]_vars

\* a result is displayed, the countdown has run down and a later scan has
\* failed: the result is still displayed, next to the error message
C29_Witness ==
    /\ pc = "dashboard"
    /\ dash.event = "fail"
    /\ dash.data # <<>>
    /\ dash.data[1] # <<>>
    /\ dash.error = FailedMessage
    /\ ~dash.loading
    /\ dash.countdown = CountdownStart

-----------------------------------------------------------------------------
(* The page load of the dashboard: the mount effects of Home in the order   *)
(* of their useEffect calls, the render their state updates cause and the   *)
(* effects that render sets off.  A value of localStorage is <<>> when      *)
(* getItem returns null and <<v>> otherwise; a state update that is queued  *)
(* is kept the same way in dash.pending.                                    *)

\* the keys of sizeConfig
TextSizes == {"small", "medium", "large"}

\* the questions a saved watchlist can hold
WatchQuestions == {QSenateVote, QBillJune, QPassesJune}

\* the most questions in a saved watchlist
MaxSaved == 2

RECURSIVE NewSet(_)
\* new Set(array): the elements in order of first appearance
NewSet(array) ==
    IF array = <<>> THEN <<>>
    ELSE LET front == NewSet(SubSeq(array, 1, Len(array) - 1))
             x     == array[Len(array)]
         IN  IF \E k \in 1..Len(front) : front[k] = x THEN front ELSE Append(front, x)

\* JSON.parse of the text JSON.stringify wrote for a boolean
ParseBool(text) == text = "true"

\* the arrays the persist effect of the watchlist can have written
SavedWatchlists ==
    UNION { { w \in [1..n -> WatchQuestions] : NewSet(w) = w } : n \in 0..MaxSaved }

\* what localStorage can hold when the page loads
SavedPreferences ==
    [size        : {<<>>} \cup { <<t>> : t \in TextSizes },
     watchlist   : {<<>>} \cup { <<w>> : w \in SavedWatchlists },
     autoRefresh : {<<>>} \cup { <<StringifyBool(b)>> : b \in BOOLEAN }]

\* the effects of Home that read or write the preferences or start a scan, in
\* the order of their useEffect calls
MountEffects == <<"load", "size", "watchlist", "autoRefresh", "scan">>

\* the first render: the defaults of useState, every effect due
InitMount ==
    /\ \E saved \in SavedPreferences :
          dash = [loading |-> TRUE, error |-> "", data |-> <<>>,
                  countdown |-> CountdownStart, autoRefresh |-> TRUE,
                  textSize |-> "medium", watchlist |-> <<>>, inflight |-> 0,
                  ls |-> saved, saved |-> saved,
                  pending |-> [size |-> <<>>, watchlist |-> <<>>, autoRefresh |-> <<>>],
                  due |-> MountEffects, writes |-> 0]
    /\ pc = "mount"
    /\ IdleMatcher

\* the effect named e is the next to run
IsDue(e) == pc = "mount" /\ dash.due # <<>> /\ Head(dash.due) = e

\* the load effect: the three getItem calls and the state updates they queue
LoadPreferences ==
    /\ IsDue("load")
    /\ dash' = [dash EXCEPT
          !.pending = [size        |-> IF dash.ls.size # <<>> /\ dash.ls.size[1] \in TextSizes
                                       THEN dash.ls.size ELSE <<>>,
                       watchlist   |-> IF dash.ls.watchlist # <<>>
                                       THEN <<NewSet(dash.ls.watchlist[1])>> ELSE <<>>,
                       autoRefresh |-> IF dash.ls.autoRefresh # <<>>
                                       THEN <<ParseBool(dash.ls.autoRefresh[1])>> ELSE <<>>],
          !.due = Tail(@)]
    /\ UNCHANGED dashFrame

\* localStorage.setItem('arb-text-size', textSize)
PersistTextSize ==
    /\ IsDue("size")
    /\ dash' = [dash EXCEPT !.ls.size = <<dash.textSize>>, !.writes = @ + 1,
                            !.due = Tail(@)]
    /\ UNCHANGED dashFrame

\* localStorage.setItem('arb-watchlist', JSON.stringify(Array.from(watchlist)))
PersistWatchlist ==
    /\ IsDue("watchlist")
    /\ dash' = [dash EXCEPT !.ls.watchlist = <<dash.watchlist>>, !.writes = @ + 1,
                            !.due = Tail(@)]
    /\ UNCHANGED dashFrame

\* localStorage.setItem('arb-auto-refresh', JSON.stringify(autoRefresh))
PersistAutoRefresh ==
    /\ IsDue("autoRefresh")
    /\ dash' = [dash EXCEPT !.ls.autoRefresh = <<StringifyBool(dash.autoRefresh)>>,
                            !.writes = @ + 1, !.due = Tail(@)]
    /\ UNCHANGED dashFrame

\* useEffect(() => { scan(); }, [scan])
MountScan ==
    /\ IsDue("scan")
    /\ dash' = [StartScan(dash) EXCEPT !.due = Tail(@)]
    /\ UNCHANGED dashFrame

\* EffectsDue with dependency arrays that never change
EffectsDueNever(d, p) == <<>>

\* the persist effects whose dependency differs after the queued updates p
\* are applied to d: a string or a boolean that changed, a Set that was set
EffectsDue(d, p) ==
    (IF p.size # <<>> /\ p.size[1] # d.textSize THEN <<"size">> ELSE <<>>)
        \o (IF p.watchlist # <<>> THEN <<"watchlist">> ELSE <<>>)
        \o (IF p.autoRefresh # <<>> /\ p.autoRefresh[1] # d.autoRefresh
            THEN <<"autoRefresh">> ELSE <<>>)

\* the render after the effects: the queued updates become the state
Rerender ==
    /\ pc = "mount"
    /\ dash.due = <<>>
    /\ dash.pending # [size |-> <<>>, watchlist |-> <<>>, autoRefresh |-> <<>>]
    /\ dash' = [dash EXCEPT
          !.textSize    = IF dash.pending.size # <<>> THEN dash.pending.size[1] ELSE @,
          !.watchlist   = IF dash.pending.watchlist # <<>>
                          THEN dash.pending.watchlist[1] ELSE @,
          !.autoRefresh = IF dash.pending.autoRefresh # <<>>
                          THEN dash.pending.autoRefresh[1] ELSE @,
          !.pending     = [size |-> <<>>, watchlist |-> <<>>, autoRefresh |-> <<>>],
          !.due         = EffectsDue(dash, dash.pending)]
    /\ UNCHANGED dashFrame

NextMount ==
    \/ LoadPreferences
    \/ PersistTextSize
    \/ PersistWatchlist
    \/ PersistAutoRefresh
    \/ MountScan
    \/ Rerender

SpecMount == InitMount /\ [][NextMount]_vars

-----------------------------------------------------------------------------
(* Saved preferences across a page load, checked under SpecMount *)

\* no effect is due and no state update is queued
Settled ==
    /\ pc = "mount"
    /\ dash.due = <<>>
    /\ dash.pending = [size |-> <<>>, watchlist |-> <<>>, autoRefresh |-> <<>>]

\* C28: once the mount effects have settled, every preference that was found
\* saved is the value of the state and the value in localStorage
C28_SavedPreferencesKept ==
    Settled =>
        /\ dash.saved.size # <<>> =>
              dash.textSize = dash.saved.size[1] /\ dash.ls.size = dash.saved.size
        /\ dash.saved.watchlist # <<>> =>
              /\ dash.watchlist = dash.saved.watchlist[1]
              /\ dash.ls.watchlist = dash.saved.watchlist
        /\ dash.saved.autoRefresh # <<>> =>
              /\ dash.autoRefresh = ParseBool(dash.saved.autoRefresh[1])
              /\ dash.ls.autoRefresh = dash.saved.autoRefresh

\* three saved preferences, none the default: the persist effects wrote the
\* defaults over them, then the saved values again, six writes in all
C28_Witness ==
    /\ Settled
    /\ dash.saved.size = <<"small">>
    /\ dash.saved.watchlist = <<<<QSenateVote, QBillJune>>>>
    /\ dash.saved.autoRefresh = <<"false">>
    /\ dash.writes = 6
    /\ dash.ls = dash.saved
    /\ dash.textSize = "small"
    /\ ~dash.autoRefresh

=============================================================================
